---- MODULE Spec2Model ----
(***************************************************************************)
(* Request-local storage (werkzeug.local), its manager, the closing        *)
(* response iterator and the session store (werkzeug.contrib.sessions),    *)
(* as state machines.                                                      *)
(*                                                                         *)
(* Spec      the Local registry and LocalManager.cleanup, called by        *)
(*           several execution units in any interleaving.                  *)
(* SpecIter  one ClosingIterator with any callbacks, driven by any         *)
(*           sequence of next and close calls.                             *)
(* SpecMw    requests served through LocalManager.make_middleware: the     *)
(*           application sets attributes and returns a body or raises, and *)
(*           the server iterates and closes the wrapped body.              *)
(* SpecLocalIter  one iteration over a Local among sets and cleanups.      *)
(* SpecIdent get_ident() called by threads and greenlets.                  *)
(* SpecKey   is_valid_key applied to one string.                           *)
(* SpecSess  an application working with one FilesystemSessionStore.       *)
(* SpecSessMw  requests served through SessionMiddleware.                  *)
(* SpecSessFault  the FilesystemSessionStore on a failing file system.     *)
(* SpecGen   generate_key() called again and again.                        *)
(* SpecRun   applications run through run_wsgi_app.                        *)
(* SpecLock  the methods of Local and cleanup, statement by statement.     *)
(* SpecLockFair  SpecLock under the scheduling of threads.                 *)
(* SpecGet   get(sid) on the base SessionStore and on the filesystem store.*)
(* SpecNested  a list kept in a session and changed in place.              *)
(* SpecCopy  a session assigned to and copied.                             *)
(* SpecRace  get racing with save and delete of the same session.          *)
(***************************************************************************)
EXTENDS Integers, Sequences, FiniteSets, TLC

(***************************************************************************)
(* Bounds of the model.                                                    *)
(***************************************************************************)
\* number of Local operations explored in one behaviour
MaxOps == 3
\* width in bits the hash of get_ident is reduced to
HashBits == 2
\* longest response body
MaxBody == 2
\* number of get_ident() calls observed in one behaviour
MaxIdentCalls == 3
\* longest run of arbitrary characters at the end of a string given to is_valid_key
MaxTail == 2
\* number of generate_key() calls made in one behaviour
MaxGenCalls == 6
\* number of calls on Locals that the threads of SpecLock begin in one behaviour
MaxLockOps == 3
\* number of save, delete and get calls that the two threads of SpecRace begin
MaxRaceOps == 3
\* number of run_wsgi_app calls made in one behaviour
MaxRuns == 2
\* number of requests served through SessionMiddleware in one behaviour
MaxRequests == 2
\* number of store and session operations explored in one behaviour
MaxStoreOps == 5
\* most callbacks attached to one ClosingIterator
MaxCallbacks == 2
\* number of next and close calls made on one ClosingIterator
MaxCalls == 4

(***************************************************************************)
(* Execution units and their identity.                                     *)
(***************************************************************************)
\* thread.get_ident() values
Threads == {1, 3}
\* hash of what get_current_greenlet() returns (None, or a greenlet object)
Greenlets == {0, 1, 2}
\* the execution units that call in, <<thread, greenlet>>: two greenlets of one
\* thread, and a greenlet of another thread whose hash meets that of the first
Units == {<<1, 0>>, <<1, 1>>, <<3, 2>>}

HashMod == 2 ^ HashBits

RECURSIVE BitXor(_, _)
BitXor(a, b) ==
    IF a = 0 THEN b
    ELSE IF b = 0 THEN a
    ELSE (((a % 2) + (b % 2)) % 2) + 2 * BitXor(a \div 2, b \div 2)

\* hash() of a 2-tuple of integers: CPython's tuplehash, at HashBits bits
TupleHash(t) ==
    LET x0 == 3430008 % HashMod
        m0 == 1000003 % HashMod
        x1 == (BitXor(x0, t[1] % HashMod) * m0) % HashMod
        m1 == (m0 + 82520 + 1 + 1) % HashMod
        x2 == (BitXor(x1, t[2] % HashMod) * m1) % HashMod
    IN  (x2 + 97531) % HashMod

get_ident(u) == TupleHash(u)

Idents == {get_ident(u) : u \in Units}

(***************************************************************************)
(* Python dicts: a function whose DOMAIN is the set of keys present.       *)
(***************************************************************************)
EmptyDict == [k \in {} |-> 0]

DictSet(d, k, v) == [x \in (DOMAIN d) \cup {k} |-> IF x = k THEN v ELSE d[x]]

DictDel(d, k) == [x \in (DOMAIN d) \ {k} |-> d[x]]

\* d.pop(k, None)
DictPop(d, k) == IF k \in DOMAIN d THEN DictDel(d, k) ELSE d

(***************************************************************************)
(* The Local objects, attribute names and values.                          *)
(***************************************************************************)
\* every Local of the process
Locals == {"l1", "l2", "l3"}
\* LocalManager.locals: the managed ones, in list order
ManagedLocals == <<"l1", "l2">>
Names == {"a", "b"}
Payloads == {1}
\* a value stored by unit u carries u, so that its origin stays visible
ValuesOf(u) == {<<u, p>> : p \in Payloads}
Owner(v) == v[1]
NoValue == <<>>

VARIABLES
    storage,    \* storage[l]: the __storage dict of Local l, ident -> (name -> value)
    last,       \* the last operation called and its outcome
    nops,       \* number of operations so far
    shadow,     \* shadow[l][i]: plain name -> value map replayed from i's set/delete calls
    cleaned,    \* the identities that have called cleanup
    setters,    \* setters[l][n]: the identities that have ever set name n on Local l
    evicted,    \* evicted[l]: the identities that called cleanup and have not set on l since
    streak      \* how many of the latest operations in a row are cleanups by one identity

localVars == <<storage, last, nops, shadow, cleaned, setters, evicted, streak>>

VARIABLES
    ci,         \* the ClosingIterator of SpecIter
    ciLog,      \* what has happened on it: calls, items, source close, callbacks, results
    ciCalls     \* number of calls made on it

iterVars == <<ci, ciLog, ciCalls>>

VARIABLES
    req         \* req[u]: the request unit u is serving: its phase, its wrapped body, and
                \* what has happened in it: runs of cleanup, a close call, a next call
                \* on the exhausted body

mwVars == <<req>>

VARIABLES
    lit,        \* the iterator that iter(local) returned, with the Local it walks
    litLog      \* what its next calls have produced so far

litVars == <<lit, litLog>>

VARIABLES
    idcalls     \* the get_ident() calls observed: the calling unit and the value returned

idVars == <<idcalls>>

VARIABLES
    key,        \* the string handed to is_valid_key
    keyValid    \* <<b>> once is_valid_key has returned b for it, <<>> before

keyVars == <<key, keyValid>>

VARIABLES
    files,      \* the session directory: file name -> pickled bytes
    sess,       \* the Session object the application holds
    sLast,      \* the last store call: its argument, its result, the files it touched
    saved,      \* saved[sid]: the namespace of the latest save of sid, until sid is deleted
    deleted,    \* deleted[sid]: sid was deleted and not saved since; TRUE if a record was removed
    mLast,      \* the last method called on the held session since the store returned it
    sops        \* number of store and session operations so far

sessVars == <<files, sess, sLast, saved, deleted, mLast, sops>>

VARIABLES
    smw,        \* the request SessionMiddleware is serving: its phase, its session, its
                \* wrapped body, the Set-Cookie header it emitted, and what has happened
    mwFiles,    \* the session directory of the store behind the middleware
    nreq        \* number of requests the middleware has been called for

smwVars == <<smw, mwFiles, nreq>>

VARIABLES
    io          \* the last store call made on a failing file system: the system
                \* call that failed in it and the exception the caller saw

ioVars == <<io>>

VARIABLES
    genLog      \* the generate_key() calls made: the entropy each drew, the key it returned

genVars == <<genLog>>

VARIABLES
    wrun,       \* the run_wsgi_app call under way: the body the application returned,
                \* what the caller got from the returned iterator, the close calls
    gotClose,   \* number of close calls the bodies of all runs have received
    nruns       \* number of run_wsgi_app calls so far

runVars == <<wrun, gotClose, nruns>>

VARIABLES
    lk,         \* lk[l]: the thread that holds the __lock of Local l, NoUnit when free
    lstore,     \* lstore[l]: the __storage dict of Local l
    pc,         \* pc[u]: the call thread u is in, and how far it has got in it
    acc,        \* the last access to a __storage dict: who made it, in which call, and
                \* whether the accessing thread held the Local's lock
    lops        \* number of calls begun so far

lockVars == <<lk, lstore, pc, acc, lops>>

VARIABLES
    rfs,        \* the file of one session: <<>> when there is none, <<bytes>> otherwise
    wr,         \* the thread that saves and deletes that session: where it stands in save
    gt,         \* the thread that gets that session: where it stands in get, the file
                \* it holds open, what it may rightly return, and what it returned
    rops        \* number of save, delete and get calls begun so far

raceVars == <<rfs, wr, gt, rops>>

\* the variables of the specifications that follow SpecMw
extVars == <<litVars, idVars, keyVars, sessVars, smwVars, ioVars, genVars, runVars, lockVars, raceVars>>

\* all variables but those of one of these specifications
exceptLit ==
    <<localVars, iterVars, mwVars, idVars, keyVars, sessVars, smwVars, ioVars, genVars, runVars, lockVars, raceVars>>
exceptId ==
    <<localVars, iterVars, mwVars, litVars, keyVars, sessVars, smwVars, ioVars, genVars, runVars, lockVars, raceVars>>
exceptKey ==
    <<localVars, iterVars, mwVars, litVars, idVars, sessVars, smwVars, ioVars, genVars, runVars, lockVars, raceVars>>
exceptSess ==
    <<localVars, iterVars, mwVars, litVars, idVars, keyVars, smwVars, ioVars, genVars, runVars, lockVars, raceVars>>
exceptSmw ==
    <<localVars, iterVars, mwVars, litVars, idVars, keyVars, sessVars, ioVars, genVars, runVars, lockVars, raceVars>>
exceptIo ==
    <<localVars, iterVars, mwVars, litVars, idVars, keyVars, sessVars, smwVars, genVars, runVars, lockVars, raceVars>>
exceptGen ==
    <<localVars, iterVars, mwVars, litVars, idVars, keyVars, sessVars, smwVars, ioVars, runVars, lockVars, raceVars>>
exceptRun ==
    <<localVars, iterVars, mwVars, litVars, idVars, keyVars, sessVars, smwVars, ioVars, genVars, lockVars, raceVars>>
exceptLock ==
    <<localVars, iterVars, mwVars, litVars, idVars, keyVars, sessVars, smwVars, ioVars, genVars, runVars, raceVars>>
exceptRace ==
    <<localVars, iterVars, mwVars, litVars, idVars, keyVars, sessVars, smwVars, ioVars, genVars, runVars, lockVars>>

\* all variables but those of the store and of its failing file system
exceptSessIo ==
    <<localVars, iterVars, mwVars, litVars, idVars, keyVars, smwVars, genVars, runVars,
      lockVars, raceVars>>

vars == <<localVars, iterVars, mwVars, extVars>>

NoOp == [op |-> "none", unit |-> <<0, 0>>, local |-> "", name |-> "",
         exc |-> "", ret |-> NoValue]

Outcome(op, u, l, n, exc, ret) ==
    [op |-> op, unit |-> u, local |-> l, name |-> n, exc |-> exc, ret |-> ret]

(***************************************************************************)
(* Local.__getattr__, __setattr__, __delattr__ on one __storage dict.      *)
(* Each runs with the Local's lock held, so it is one step.                *)
(***************************************************************************)
\* as Local_getattr, but a name missing from an existing namespace reads as a
\* default (None) in place of an exception
Local_getattr_default(st, ident, name) ==
    IF ident \notin DOMAIN st
    THEN [exc |-> "AttributeError", ret |-> NoValue]
    ELSE IF name \notin DOMAIN st[ident]
         THEN [exc |-> "", ret |-> NoValue]
         ELSE [exc |-> "", ret |-> st[ident][name]]

\* [exc, ret]: the value returned, or the exception raised
Local_getattr(st, ident, name) ==
    IF ident \notin DOMAIN st
    THEN [exc |-> "AttributeError", ret |-> NoValue]
    ELSE IF name \notin DOMAIN st[ident]
         THEN [exc |-> "AttributeError", ret |-> NoValue]
         ELSE [exc |-> "", ret |-> st[ident][name]]

\* as Local_setattr, but the name is stored in every namespace, whoever owns it
Local_setattr_unkeyed(st, ident, name, value) ==
    [i \in (DOMAIN st) \cup {ident} |->
        DictSet(IF i \in DOMAIN st THEN st[i] ELSE EmptyDict, name, value)]

\* as Local_setattr, but a set always starts a fresh namespace
Local_setattr_fresh(st, ident, name, value) ==
    DictSet(st, ident, DictSet(EmptyDict, name, value))

\* the __storage dict after the call
Local_setattr(st, ident, name, value) ==
    IF ident \in DOMAIN st
    THEN DictSet(st, ident, DictSet(st[ident], name, value))
    ELSE DictSet(st, ident, DictSet(EmptyDict, name, value))

\* as Local_delattr, but a namespace left empty is dropped from __storage
Local_delattr_prune(st, ident, name) ==
    IF ident \notin DOMAIN st
    THEN [exc |-> "AttributeError", st |-> st]
    ELSE IF name \notin DOMAIN st[ident]
         THEN [exc |-> "AttributeError", st |-> st]
         ELSE [exc |-> "",
               st |-> IF DOMAIN st[ident] = {name}
                      THEN DictDel(st, ident)
                      ELSE DictSet(st, ident, DictDel(st[ident], name))]

\* as Local_delattr, but the namespace is looked up with setdefault(ident, {})
Local_delattr_create(st, ident, name) ==
    IF ident \notin DOMAIN st
    THEN [exc |-> "AttributeError", st |-> DictSet(st, ident, EmptyDict)]
    ELSE IF name \notin DOMAIN st[ident]
         THEN [exc |-> "AttributeError", st |-> st]
         ELSE [exc |-> "", st |-> DictSet(st, ident, DictDel(st[ident], name))]

\* [exc, st]: the exception raised, and the __storage dict after the call
Local_delattr(st, ident, name) ==
    IF ident \notin DOMAIN st
    THEN [exc |-> "AttributeError", st |-> st]
    ELSE IF name \notin DOMAIN st[ident]
         THEN [exc |-> "AttributeError", st |-> st]
         ELSE [exc |-> "", st |-> DictSet(st, ident, DictDel(st[ident], name))]

(***************************************************************************)
(* LocalManager.cleanup: pops the ident from every managed Local, in list  *)
(* order.                                                                  *)
(***************************************************************************)
RECURSIVE CleanupFrom(_, _, _)
CleanupFrom(sto, ident, i) ==
    IF i > Len(ManagedLocals) THEN sto
    ELSE CleanupFrom([sto EXCEPT ![ManagedLocals[i]] = DictPop(@, ident)], ident, i + 1)

\* as LocalManager_cleanup, but with __storage.clear() in place of pop(ident, None)
LocalManager_cleanup_clear(sto, ident) ==
    [exc |-> "", sto |-> [l \in DOMAIN sto |-> IF l \in {ManagedLocals[i] : i \in DOMAIN ManagedLocals}
                                               THEN EmptyDict ELSE sto[l]]]

\* as LocalManager_cleanup, but only the first managed Local is cleaned
LocalManager_cleanup_first(sto, ident) ==
    [exc |-> "", sto |-> [sto EXCEPT ![ManagedLocals[1]] = DictPop(@, ident)]]

\* as LocalManager_cleanup, but with `del storage[ident]` in place of pop(ident, None)
LocalManager_cleanup_del(sto, ident) ==
    IF \E i \in 1..Len(ManagedLocals) : ident \notin DOMAIN sto[ManagedLocals[i]]
    THEN [exc |-> "KeyError", sto |-> sto]
    ELSE [exc |-> "", sto |-> CleanupFrom(sto, ident, 1)]

\* [exc, sto]: the exception raised, and all storages after the call
LocalManager_cleanup(sto, ident) == [exc |-> "", sto |-> CleanupFrom(sto, ident, 1)]

(***************************************************************************)
(* The replayed reference map (not program state).                         *)
(***************************************************************************)
EmptyShadow == [n \in Names |-> NoValue]

(***************************************************************************)
(* ClosingIterator (werkzeug.utils), as section 4.3 of the specification   *)
(* describes it: OPEN or CLOSED, around a source of len items of which pos *)
(* have been handed out, with the callbacks cbs. next() on a CLOSED        *)
(* iterator reports end-of-sequence.                                       *)
(* raising is the set of callbacks that raise when they are called.        *)
(* An event is a pair: <<"call_next", 0>>, <<"call_close", 0>>,            *)
(* <<"item", k>>, <<"src_close", 0>>, <<"cb", c>> (callback c was called), *)
(* <<"eos", 0>> (the call reported end-of-sequence), <<"error", c>> (the   *)
(* call raised the error of callback c), <<"return", 0>>.                  *)
(***************************************************************************)
ClosingIterator(len, srcClose, cbs, raising) ==
    [state |-> "OPEN", len |-> len, pos |-> 0, srcClose |-> srcClose,
     cbs |-> cbs, raising |-> raising]

NoIter ==
    [state |-> "CLOSED", len |-> 0, pos |-> 0, srcClose |-> FALSE,
     cbs |-> <<>>, raising |-> {}]

\* the first callback of cbs that raises, as a one-element sequence; <<>> if none
RECURSIVE FirstFailure(_, _)
FirstFailure(cbs, raising) ==
    IF cbs = <<>> THEN <<>>
    ELSE IF Head(cbs) \in raising THEN <<Head(cbs)>>
    ELSE FirstFailure(Tail(cbs), raising)

\* as RunCallbacks, but the first callback that raises ends the run
RECURSIVE RunCallbacks_stop(_, _)
RunCallbacks_stop(cbs, raising) ==
    IF cbs = <<>> THEN <<>>
    ELSE IF Head(cbs) \in raising THEN << <<"cb", Head(cbs)>>, <<"error", Head(cbs)>> >>
    ELSE << <<"cb", Head(cbs)>> >> \o RunCallbacks_stop(Tail(cbs), raising)

\* the events of running all callbacks in order: every one is called, and the
\* first failure is raised after the last one
RunCallbacks(cbs, raising) ==
    [i \in 1..Len(cbs) |-> <<"cb", cbs[i]>>]
        \o (LET f == FirstFailure(cbs, raising)
            IN  IF f = <<>> THEN <<>> ELSE << <<"error", f[1]>> >>)

Raised(events) == events # <<>> /\ events[Len(events)][1] = "error"

\* as ClosingIterator_next, but without the CLOSED state
ClosingIterator_next_again(it) ==
    IF it.pos < it.len
    THEN [it |-> [it EXCEPT !.pos = @ + 1], events |-> << <<"item", it.pos + 1>> >>]
    ELSE LET r == RunCallbacks(it.cbs, it.raising)
         IN  [it |-> [it EXCEPT !.state = "CLOSED"],
              events |-> IF Raised(r) THEN r ELSE r \o << <<"eos", 0>> >>]

\* next(): [it, events]
ClosingIterator_next(it) ==
    IF it.state = "OPEN"
    THEN IF it.pos < it.len
         THEN [it |-> [it EXCEPT !.pos = @ + 1], events |-> << <<"item", it.pos + 1>> >>]
         ELSE LET r == RunCallbacks(it.cbs, it.raising)
              IN  [it |-> [it EXCEPT !.state = "CLOSED"],
                   events |-> IF Raised(r) THEN r ELSE r \o << <<"eos", 0>> >>]
    ELSE [it |-> it, events |-> << <<"eos", 0>> >>]

\* as ClosingIterator_close, but without the CLOSED state
ClosingIterator_close_again(it) ==
    LET r == RunCallbacks(it.cbs, it.raising)
        c == IF it.srcClose THEN << <<"src_close", 0>> >> ELSE <<>>
    IN  [it |-> [it EXCEPT !.state = "CLOSED"],
         events |-> IF Raised(r) THEN c \o r ELSE c \o r \o << <<"return", 0>> >>]

\* as ClosingIterator_close, but the source is closed after the callbacks
ClosingIterator_close_late(it) ==
    IF it.state = "OPEN"
    THEN LET r == RunCallbacks(it.cbs, it.raising)
             c == IF it.srcClose THEN << <<"src_close", 0>> >> ELSE <<>>
         IN  [it |-> [it EXCEPT !.state = "CLOSED"],
              events |-> IF Raised(r)
                         THEN SubSeq(r, 1, Len(r) - 1) \o c \o << r[Len(r)] >>
                         ELSE r \o c \o << <<"return", 0>> >>]
    ELSE [it |-> it, events |-> << <<"return", 0>> >>]

\* close(): [it, events]
ClosingIterator_close(it) ==
    IF it.state = "OPEN"
    THEN LET r == RunCallbacks(it.cbs, it.raising)
             c == IF it.srcClose THEN << <<"src_close", 0>> >> ELSE <<>>
         IN  [it |-> [it EXCEPT !.state = "CLOSED"],
              events |-> IF Raised(r) THEN c \o r ELSE c \o r \o << <<"return", 0>> >>]
    ELSE [it |-> it, events |-> << <<"return", 0>> >>]

(***************************************************************************)
(* Initial state: Local() has an empty __storage.                          *)
(***************************************************************************)
InitLocal ==
    /\ storage = [l \in Locals |-> EmptyDict]
    /\ last = NoOp
    /\ nops = 0
    /\ shadow = [l \in Locals |-> [i \in Idents |-> EmptyShadow]]
    /\ cleaned = {}
    /\ setters = [l \in Locals |-> [n \in Names |-> {}]]
    /\ evicted = [l \in Locals |-> {}]
    /\ streak = 0

\* no ClosingIterator yet
InitNoIter ==
    /\ ci = NoIter
    /\ ciLog = <<>>
    /\ ciCalls = 0

\* no request yet
NoRequest ==
    [phase |-> "idle", it |-> NoIter, cleanups |-> 0,
     closeCalled |-> FALSE, drained |-> FALSE]

InitNoRequest == req = [u \in Units |-> NoRequest]

(***************************************************************************)
(* Session keys (werkzeug.contrib.sessions). A string is the sequence of   *)
(* its characters.                                                         *)
(***************************************************************************)
\* the {40} of _sha1_re
KeyLen == 40
\* the class [a-fA-F0-9] of _sha1_re
HexChars == {"0", "1", "2", "3", "4", "5", "6", "7", "8", "9",
             "a", "b", "c", "d", "e", "f", "A", "B", "C", "D", "E", "F"}

Rep(c, n) == [i \in 1..n |-> c]

\* _sha1_re.match(k) is not None, for the pattern ^[a-fA-F0-9]{40}$. Without
\* re.MULTILINE, $ matches at the end of the string and also just before a
\* newline that is the last character of the string.
sha1_re_match(k) ==
    /\ Len(k) >= KeyLen
    /\ \A i \in 1..KeyLen : k[i] \in HexChars
    /\ \/ Len(k) = KeyLen
       \/ Len(k) = KeyLen + 1 /\ k[KeyLen + 1] = "\n"

\* SessionStore.is_valid_key
is_valid_key(k) == sha1_re_match(k)

\* the shape the key format asks for: 40 hex characters and nothing else
IsKeyFormat(k) == Len(k) = KeyLen /\ \A i \in 1..Len(k) : k[i] \in HexChars

\* sha1(...).hexdigest() of the salt, the time and the random bytes: 40
\* lowercase hex characters that the entropy e determines
DigestChars == <<"a", "0">>
\* what one call hashes: the salt, str(time()) and the bytes of _urandom().
\* Nothing keeps two calls from hashing the same: the clock may not have
\* moved on, and os.urandom and random() may return what they returned before.
Entropy == DOMAIN DigestChars

\* as generate_key, but with the digest in upper case
generate_key_upper(e) == Rep("A", KeyLen)

generate_key(e) == Rep(DigestChars[e], KeyLen)

(***************************************************************************)
(* Session objects and the FilesystemSessionStore.                         *)
(***************************************************************************)
SessKeys == <<"k1", "k2">>
SessValues == {1, 2}

\* Session.__init__: ModificationTrackingDict.__init__ sets modified to False
Session(data, sid, new) == [data |-> data, sid |-> sid, new |-> new, modified |-> FALSE]

\* the application holds no session
NoSession == [data |-> EmptyDict, sid |-> <<>>, new |-> FALSE, modified |-> FALSE]

\* Session.__setitem__, wrapped by call_with_modification
Session_setitem(session, k, v) ==
    [session EXCEPT !.data = DictSet(@, k, v), !.modified = TRUE]

\* as Session_nested_append, but the session notices the change
Session_nested_append_tracked(session, k, x) ==
    [session EXCEPT !.data = DictSet(@, k, Append(session.data[k], x)), !.modified = TRUE]

\* session[k].append(x), for a list stored under k: dict.__getitem__ is not
\* wrapped by call_with_modification, and the list knows nothing of the session
Session_nested_append(session, k, x) ==
    [session EXCEPT !.data = DictSet(@, k, Append(session.data[k], x))]

\* session.modified = True, set by hand
Session_set_modified(session) == [session EXCEPT !.modified = TRUE]

\* [exc, ret] of session.copy(). object.__new__(cls) refuses a class derived
\* from dict with a TypeError (newOk is FALSE); an interpreter that allows it
\* (newOk is TRUE) returns an empty dict, onto which the loop over __slots__
\* copies the attributes: the slots of the class, which for a Session are
\* modified, sid and new. The items are copied nowhere.
Session_copy(session, newOk) ==
    IF newOk
    THEN [exc |-> "", ret |-> [session EXCEPT !.data = EmptyDict]]
    ELSE [exc |-> "TypeError", ret |-> NoSession]

\* as Session_setdefault, but with the plain dict.setdefault, which
\* call_with_modification does not wrap
Session_setdefault_untracked(session, k, v) ==
    [exc |-> "",
     session |-> IF k \in DOMAIN session.data THEN session
                 ELSE [session EXCEPT !.data = DictSet(@, k, v)]]

\* The other methods that call_with_modification wraps. Each gives [exc,
\* session]: the exception dict's method raises, and the session after the
\* call; the finally clause sets modified whether or not the method raised.
Session_delitem(session, k) ==
    [exc |-> IF k \in DOMAIN session.data THEN "" ELSE "KeyError",
     session |-> [session EXCEPT !.data = DictPop(@, k), !.modified = TRUE]]

Session_clear(session) ==
    [exc |-> "", session |-> [session EXCEPT !.data = EmptyDict, !.modified = TRUE]]

\* as Session_pop, but modified is set after the call and not in a finally
\* clause, so a call that raises leaves it alone
Session_pop_onsuccess(session, k) ==
    IF k \in DOMAIN session.data
    THEN [exc |-> "", session |-> [session EXCEPT !.data = DictDel(@, k), !.modified = TRUE]]
    ELSE [exc |-> "KeyError", session |-> session]

\* pop(k), without a default
Session_pop(session, k) ==
    [exc |-> IF k \in DOMAIN session.data THEN "" ELSE "KeyError",
     session |-> [session EXCEPT !.data = DictPop(@, k), !.modified = TRUE]]

\* popitem(), where k is the key of the item that dict.popitem picks
Session_popitem(session, k) ==
    [exc |-> IF session.data = EmptyDict THEN "KeyError" ELSE "",
     session |-> [session EXCEPT !.data = DictPop(@, k), !.modified = TRUE]]

Session_setdefault(session, k, v) ==
    [exc |-> "",
     session |-> IF k \in DOMAIN session.data
                 THEN [session EXCEPT !.modified = TRUE]
                 ELSE [session EXCEPT !.data = DictSet(@, k, v), !.modified = TRUE]]

\* update(other), for a dict other
Session_update(session, other) ==
    [exc |-> "",
     session |-> [session EXCEPT
                     !.data = [k \in (DOMAIN @) \cup (DOMAIN other) |->
                                  IF k \in DOMAIN other THEN other[k] ELSE @[k]],
                     !.modified = TRUE]]

\* Session.should_save
should_save(session) == session.modified

\* dump(dict(session), f): the items, written one after the other
Pickled(d) ==
    LET has(k) == k \in DOMAIN d
        ks == SelectSeq(SessKeys, has)
    IN  [i \in 1..Len(ks) |-> <<ks[i], d[ks[i]]>>]

\* load(f): the dict rebuilt from the written items
Unpickled(b) ==
    [k \in {b[i][1] : i \in 1..Len(b)} |->
        b[CHOOSE i \in 1..Len(b) : b[i][1] = k][2]]

\* path.join(self.path, self.filename_template % sid)
PathDir == <<"t", "/">>
TemplateHead == <<"w", "_">>
TemplateTail == <<".", "s">>
get_session_filename(sid) == PathDir \o TemplateHead \o sid \o TemplateTail

\* as SessionStore_new, but the session is not flagged new
SessionStore_new_old(e) == Session(EmptyDict, generate_key(e), FALSE)

\* SessionStore.new
SessionStore_new(e) == Session(EmptyDict, generate_key(e), TRUE)

\* SessionStore.get of the base class: the sid is taken as it is
SessionStore_get(sid) == Session(EmptyDict, sid, TRUE)

\* as FilesystemSessionStore_save, but what is dumped is an empty dict
FilesystemSessionStore_save_empty(fs, session) ==
    DictSet(fs, get_session_filename(session.sid), Pickled(EmptyDict))

\* the directory after save(session): the file is opened with 'wb' and written
FilesystemSessionStore_save(fs, session) ==
    DictSet(fs, get_session_filename(session.sid), Pickled(session.data))

\* as FilesystemSessionStore_delete, but the file is emptied, not unlinked
FilesystemSessionStore_delete_truncate(fs, session) ==
    IF get_session_filename(session.sid) \in DOMAIN fs
    THEN DictSet(fs, get_session_filename(session.sid), Pickled(EmptyDict))
    ELSE fs

\* the directory after delete(session): unlink, an OSError is ignored
FilesystemSessionStore_delete(fs, session) ==
    IF get_session_filename(session.sid) \in DOMAIN fs
    THEN DictDel(fs, get_session_filename(session.sid))
    ELSE fs

\* as SessionStore_save_if_modified, but the session is saved when it is new
SessionStore_save_if_modified_new(fs, session) ==
    IF session.new
    THEN [fs |-> FilesystemSessionStore_save(fs, session),
          touched |-> {<<"open", get_session_filename(session.sid)>>}]
    ELSE [fs |-> fs, touched |-> {}]

\* SessionStore.save_if_modified, with the save of FilesystemSessionStore:
\* [fs, touched], the directory after the call and the files it touched
SessionStore_save_if_modified(fs, session) ==
    IF should_save(session)
    THEN [fs |-> FilesystemSessionStore_save(fs, session),
          touched |-> {<<"open", get_session_filename(session.sid)>>}]
    ELSE [fs |-> fs, touched |-> {}]

\* as FilesystemSessionStore_get, but an unknown sid is kept, as in SessionStore.get
FilesystemSessionStore_get_keepsid(fs, sid, e) ==
    LET fn == get_session_filename(sid)
    IN  IF ~is_valid_key(sid)
        THEN [exc |-> "", ret |-> Session(EmptyDict, sid, TRUE), touched |-> {}]
        ELSE IF fn \notin DOMAIN fs
        THEN [exc |-> "", ret |-> Session(EmptyDict, sid, TRUE),
              touched |-> {<<"exists", fn>>}]
        ELSE [exc |-> "", ret |-> Session(Unpickled(fs[fn]), sid, FALSE),
              touched |-> {<<"exists", fn>>, <<"open", fn>>}]

\* [exc, ret, touched]: the session get(sid) returns, and the files it looked
\* at on the way. `or` evaluates path.exists(fn) only for a key that
\* is_valid_key accepts; e is the entropy of the key a new session gets.
FilesystemSessionStore_get(fs, sid, e) ==
    LET fn == get_session_filename(sid)
    IN  IF ~is_valid_key(sid)
        THEN [exc |-> "", ret |-> SessionStore_new(e), touched |-> {}]
        ELSE IF fn \notin DOMAIN fs
        THEN [exc |-> "", ret |-> SessionStore_new(e), touched |-> {<<"exists", fn>>}]
        ELSE [exc |-> "", ret |-> Session(Unpickled(fs[fn]), sid, FALSE),
              touched |-> {<<"exists", fn>>, <<"open", fn>>}]

(***************************************************************************)
(* The store on a file system whose calls can fail. fault names the system *)
(* call that fails in a store call, "none" when all succeed: "open" and    *)
(* "write" raise IOError, "unlink" raises an OSError other than ENOENT,    *)
(* and "stat" makes os.stat fail, which path.exists answers with False.    *)
(***************************************************************************)
\* what is left of a file that was opened with 'wb' and not written in full
Truncated == <<"EOF">>

\* the system calls save makes
SaveFaults == {"open", "write"}

\* [exc, fs] of save(session): there is no except clause, and the finally
\* clause closes the file, so whatever file() or dump() raises goes on to
\* the caller; a failed write leaves the truncated file
FilesystemSessionStore_save_io(fs, session, fault) ==
    LET fn == get_session_filename(session.sid)
    IN  CASE fault = "open" -> [exc |-> "IOError", fs |-> fs]
          [] fault = "write" -> [exc |-> "IOError", fs |-> DictSet(fs, fn, Truncated)]
          [] OTHER -> [exc |-> "", fs |-> FilesystemSessionStore_save(fs, session)]

\* the system calls delete makes
DeleteFaults == {"unlink"}

\* [exc, fs] of delete(session): `except OSError: pass` catches whatever
\* unlink raises, for a missing file and for any other reason
FilesystemSessionStore_delete_io(fs, session, fault) ==
    IF fault = "unlink"
    THEN [exc |-> "", fs |-> fs]
    ELSE [exc |-> "", fs |-> FilesystemSessionStore_delete(fs, session)]

\* the system calls get(sid) makes: none for a key that is not valid, and
\* none after path.exists has answered False
GetFaults(fs, sid) ==
    IF ~is_valid_key(sid) THEN {}
    ELSE IF get_session_filename(sid) \notin DOMAIN fs THEN {"stat"}
    ELSE {"stat", "open", "read"}

\* [exc, ret] of get(sid): path.exists is False when os.stat fails, and a new
\* session is returned; what file() and load() raise goes on to the caller,
\* and load raises on a truncated file
FilesystemSessionStore_get_io(fs, sid, e, fault) ==
    LET fn == get_session_filename(sid)
    IN  CASE fault = "stat" -> [exc |-> "", ret |-> SessionStore_new(e)]
          [] fault = "open" -> [exc |-> "IOError", ret |-> NoSession]
          [] fault = "read" -> [exc |-> "IOError", ret |-> NoSession]
          [] OTHER ->
                IF is_valid_key(sid) /\ fn \in DOMAIN fs /\ fs[fn] = Truncated
                THEN [exc |-> "EOFError", ret |-> NoSession]
                ELSE [exc |-> "", ret |-> FilesystemSessionStore_get(fs, sid, e).ret]

\* no store call on a failing file system yet
NoIo == [op |-> "none", fault |-> "none", exc |-> ""]

InitNoIo == io = NoIo

(***************************************************************************)
(* run_wsgi_app (werkzeug.utils), as tests/test_utils.py uses it. A run is *)
(* [buffered, body, hasClose, src, buf, out, ended, closes, callerClosed]: *)
(* src counts the elements taken from the application's body, buf is the   *)
(* list a buffered run returns, out is what the caller has got from the    *)
(* returned iterator and closes counts the close calls on the body.        *)
(***************************************************************************)
\* the bodies of the applications foo and bar of test_run_wsgi_app, and an
\* empty one
RunBodies == {<<"1", "2", "3">>, <<"bar">>, <<>>}

NoRun == [phase |-> "idle", buffered |-> FALSE, body |-> <<>>, hasClose |-> FALSE,
          src |-> 0, buf |-> <<>>, out |-> <<>>, ended |-> FALSE, closes |-> 0,
          callerClosed |-> FALSE]

\* as run_wsgi_app, but a buffered run leaves the body open
run_wsgi_app_noclose(body, hasClose, buffered) ==
    IF buffered
    THEN [NoRun EXCEPT !.phase = "run", !.buffered = TRUE, !.body = body,
                       !.hasClose = hasClose, !.src = Len(body), !.buf = body]
    ELSE [NoRun EXCEPT !.phase = "run", !.body = body, !.hasClose = hasClose]

\* run_wsgi_app(app, environ, buffered), where app returns body: a buffered
\* run takes every element into a list and closes the body itself, an
\* unbuffered run hands out an iterator over the body
run_wsgi_app(body, hasClose, buffered) ==
    IF buffered
    THEN [NoRun EXCEPT !.phase = "run", !.buffered = TRUE, !.body = body,
                       !.hasClose = hasClose, !.src = Len(body), !.buf = body,
                       !.closes = IF hasClose THEN 1 ELSE 0]
    ELSE [NoRun EXCEPT !.phase = "run", !.body = body, !.hasClose = hasClose]

\* app_iter.next() on what run_wsgi_app returned (for a list: on iter(list))
AppIter_next(r) ==
    IF r.buffered
    THEN IF Len(r.out) < Len(r.buf)
         THEN [r EXCEPT !.out = Append(@, r.buf[Len(r.out) + 1])]
         ELSE [r EXCEPT !.ended = TRUE]
    ELSE IF r.src < Len(r.body)
         THEN [r EXCEPT !.out = Append(@, r.body[r.src + 1]), !.src = @ + 1]
         ELSE [r EXCEPT !.ended = TRUE]

\* app_iter.close() on the iterator an unbuffered run returned
AppIter_close(r) ==
    [r EXCEPT !.callerClosed = TRUE, !.closes = IF r.hasClose THEN @ + 1 ELSE @]

InitNoRun ==
    /\ wrun = NoRun
    /\ gotClose = 0
    /\ nruns = 0

(***************************************************************************)
(* The methods of Local and LocalManager.cleanup, statement by statement:  *)
(* acquire, the body of the try block, and the release of the finally      *)
(* clause. A call is a record [op, local, name, at, i, exc]: at is where    *)
(* the thread stands in it, i the index of the Local that cleanup is at,   *)
(* exc the exception that the body raised.                                 *)
(***************************************************************************)
\* one unit of each thread: threads preempt each other anywhere, while the
\* greenlets of one thread switch nowhere inside these methods
LockUnits == {<<1, 0>>, <<3, 2>>}
NoUnit == <<0, 0>>
\* the Locals the threads work on
LockLocals == {ManagedLocals[i] : i \in DOMAIN ManagedLocals}
LockName == "a"

NoPc == [op |-> "none", local |-> "", name |-> "", at |-> "idle", i |-> 0, exc |-> ""]

NoAccess == [op |-> "none", unit |-> NoUnit, local |-> "", held |-> FALSE]

\* where a thread stands after a call began: Local.__iter__ takes no lock and
\* returns the iterator over __storage at once; every other call starts at
\* its acquire
Local_enter(op, l) ==
    IF op = "iter"
    THEN [NoPc EXCEPT !.op = op, !.local = l, !.name = "", !.at = "iterating"]
    ELSE IF op = "cleanup"
    THEN [NoPc EXCEPT !.op = op, !.local = ManagedLocals[1], !.i = 1, !.at = "acquire"]
    ELSE [NoPc EXCEPT !.op = op, !.local = l, !.name = LockName, !.at = "acquire"]

\* [exc, st] of the try block of call c, made by unit u, on the __storage st
Local_body(c, u, st) ==
    LET ident == get_ident(u)
    IN  CASE c.op = "get" -> [exc |-> Local_getattr(st, ident, c.name).exc, st |-> st]
          [] c.op = "set" ->
                [exc |-> "", st |-> Local_setattr(st, ident, c.name, <<u, 1>>)]
          [] c.op = "del" -> Local_delattr(st, ident, c.name)
          [] OTHER -> [exc |-> "", st |-> DictPop(st, ident)]

\* as Local_finally, but release() follows the body with no try and finally
\* around it, and is skipped when the body raises
Local_finally_unguarded(c, u) == IF c.exc = "" THEN NoUnit ELSE u

\* the holder of the lock after the finally clause of call c, made by u: the
\* clause releases the lock whether or not the body raised
Local_finally(c, u) == NoUnit

\* where a thread stands after the finally clause released the lock: cleanup
\* goes on to the next managed Local, every other call has returned or
\* raised, and the idle thread keeps the name and the exception of that call
Local_leave(c) ==
    IF c.op = "cleanup" /\ c.i < Len(ManagedLocals)
    THEN [c EXCEPT !.local = ManagedLocals[c.i + 1], !.i = c.i + 1, !.at = "acquire"]
    ELSE [NoPc EXCEPT !.op = c.op, !.exc = c.exc]

InitNoLock ==
    /\ lk = [l \in LockLocals |-> NoUnit]
    /\ lstore = [l \in LockLocals |-> EmptyDict]
    /\ pc = [u \in LockUnits |-> NoPc]
    /\ acc = NoAccess
    /\ lops = 0

(***************************************************************************)
(* FilesystemSessionStore.save, delete and get on the file of one session, *)
(* statement by statement. The file is <<>> when it does not exist and     *)
(* <<bytes>> when it does.                                                 *)
(***************************************************************************)
\* the namespaces the saving thread writes
RaceData == {EmptyDict} \cup {DictSet(EmptyDict, SessKeys[1], v) : v \in SessValues}

\* the file after file(fn, 'wb'): created if missing, cut to no bytes if not
Save_open(f) == <<Truncated>>

\* the file after dump(dict(session), f, HIGHEST_PROTOCOL) and f.close()
Save_close(f, data) == <<Pickled(data)>>

\* the file after unlink(fn)
Delete_unlink(f) == <<>>

\* path.exists(fn)
Get_exists(f) == f # <<>>

\* [exc, open] of file(fn, 'rb'): IOError when there is no file
Get_open(f) == IF f = <<>> THEN [exc |-> "IOError"] ELSE [exc |-> ""]

\* [exc, data] of load(f) on the bytes c: a file cut short raises
Get_load(c) ==
    IF c = Truncated THEN [exc |-> "EOFError", data |-> EmptyDict]
    ELSE [exc |-> "", data |-> Unpickled(c)]

\* the saving thread is in no call
NoWriter == [at |-> "idle", data |-> EmptyDict, prev |-> <<>>]

\* the getting thread is in no call. h is <<bytes>> once the file it holds
\* open was unlinked: it then reads the bytes the file had. cands are the
\* namespaces that were persisted or being saved while the get ran, mayNew
\* tells whether there was a moment without a record, overlap the calls of the
\* other thread that ran meanwhile.
NoGetter ==
    [at |-> "idle", h |-> <<>>, cands |-> {}, mayNew |-> FALSE, overlap |-> {},
     exc |-> "", new |-> FALSE, data |-> EmptyDict]

InitNoRace ==
    /\ rfs = <<>>
    /\ wr = NoWriter
    /\ gt = NoGetter
    /\ rops = 0

\* no method called on the session yet
NoCall == [op |-> "none", exc |-> ""]

\* no store call yet
NoStoreCall ==
    [op |-> "none", sid |-> <<>>, exc |-> "", ret |-> NoSession, touched |-> {}, at |-> 0]

InitNoKey ==
    /\ key = <<>>
    /\ keyValid = <<>>

InitNoSession ==
    /\ files = EmptyDict
    /\ sess = NoSession
    /\ sLast = NoStoreCall
    /\ saved = EmptyDict
    /\ deleted = EmptyDict
    /\ mLast = NoCall
    /\ sops = 0

(***************************************************************************)
(* SessionMiddleware and the cookie it emits.                              *)
(***************************************************************************)
\* Python values handed to dump_cookie
PyNone == <<"None">>
PyBool(b) == <<"bool", b>>
PyInt(n) == <<"int", n>>
PyStr(str) == <<"str">> \o str

\* SessionMiddleware.__init__: the defaults, with either value of cookie_age
CookieName == <<"s", "i", "d">>
CookieAge == 60
CookieAges == {PyNone, PyInt(CookieAge)}
\* time()
Now == 1000

\* dump_cookie(key, value, max_age, expires, path, domain, secure, httponly):
\* the cookie as the header value carries it
dump_cookie(k, value, max_age, expires, pth, domain, secure, httponly) ==
    [key |-> k, value |-> value, max_age |-> max_age, expires |-> expires,
     path |-> pth, domain |-> domain, secure |-> secure, httponly |-> httponly]

NoHeader == <<>>

\* as injecting_start_response, but the cookie is sent for every new session
\* as well, modified or not
injecting_start_response_new(session, age, headers) ==
    IF should_save(session) \/ session.new
    THEN IF headers = "list"
         THEN [exc |-> "TypeError", header |-> NoHeader]
         ELSE [exc |-> "",
               header |-> dump_cookie(PyStr(CookieName), age,
                                      IF age # PyNone THEN PyInt(Now + age[2]) ELSE PyNone,
                                      PyNone, PyNone, PyNone, PyBool(FALSE), PyBool(FALSE))]
    ELSE [exc |-> "", header |-> NoHeader]

\* injecting_start_response(status, headers): [exc, header], the exception it
\* raises and the Set-Cookie header it adds. headers.append(name, value) is a
\* TypeError on a list; on an object whose append takes a name and a value
\* the header is added. The call hands dump_cookie seven positional arguments:
\* cookie_name, cookie_age, expires, cookie_path, cookie_domain, cookie_secure
\* and cookie_httponly.
injecting_start_response(session, age, headers) ==
    IF should_save(session)
    THEN IF headers = "list"
         THEN [exc |-> "TypeError", header |-> NoHeader]
         ELSE [exc |-> "",
               header |-> dump_cookie(PyStr(CookieName), age,
                                      IF age # PyNone THEN PyInt(Now + age[2]) ELSE PyNone,
                                      PyNone, PyNone, PyNone, PyBool(FALSE), PyBool(FALSE))]
    ELSE [exc |-> "", header |-> NoHeader]

\* the only callback of the body that SessionMiddleware returns
SaveCallback == 0

\* as SessionMiddleware_cleanup, but with store.save in place of save_if_modified
SessionMiddleware_cleanup_always(fs, session) ==
    [fs |-> FilesystemSessionStore_save(fs, session),
     touched |-> {<<"open", get_session_filename(session.sid)>>}]

\* lambda: self.store.save_if_modified(session)
SessionMiddleware_cleanup(fs, session) == SessionStore_save_if_modified(fs, session)

\* the middleware has not been called
NoSmwRequest ==
    [phase |-> "idle", age |-> PyNone, session |-> NoSession,
     it |-> NoIter, started |-> FALSE, header |-> NoHeader, exc |-> "",
     writes |-> 0, closeCalled |-> FALSE, drained |-> FALSE]

InitNoSmw ==
    /\ smw = NoSmwRequest
    /\ mwFiles = EmptyDict
    /\ nreq = 0

\* no iteration over a Local yet
NoLocalIter == [local |-> "", it |-> <<>>, snap |-> <<>>]

InitNoLocalIter ==
    /\ lit = NoLocalIter
    /\ litLog = <<>>

\* no get_ident() call observed yet
InitNoIdent == idcalls = <<>>

\* the specifications after SpecSessMw have not begun
InitNoGen == genLog = <<>>

InitNoLate == InitNoIo /\ InitNoGen /\ InitNoRun /\ InitNoLock /\ InitNoRace

InitExt ==
    /\ InitNoLocalIter /\ InitNoIdent /\ InitNoKey /\ InitNoSession /\ InitNoSmw
    /\ InitNoLate

Init == InitLocal /\ InitNoIter /\ InitNoRequest /\ InitExt

(***************************************************************************)
(* Operations.                                                             *)
(***************************************************************************)
Get(u, l, n) ==
    /\ nops < MaxOps
    /\ LET r == Local_getattr(storage[l], get_ident(u), n)
       IN  last' = Outcome("get", u, l, n, r.exc, r.ret)
    /\ nops' = nops + 1
    /\ streak' = 0
    /\ UNCHANGED <<storage, shadow, cleaned, setters, evicted>>
    /\ UNCHANGED <<iterVars, mwVars, extVars>>

Set(u, l, n, v) ==
    /\ nops < MaxOps
    /\ storage' = [storage EXCEPT ![l] = Local_setattr(@, get_ident(u), n, v)]
    /\ last' = Outcome("set", u, l, n, "", v)
    /\ nops' = nops + 1
    /\ shadow' = [shadow EXCEPT ![l][get_ident(u)][n] = v]
    /\ setters' = [setters EXCEPT ![l][n] = @ \cup {get_ident(u)}]
    /\ evicted' = [evicted EXCEPT ![l] = @ \ {get_ident(u)}]
    /\ streak' = 0
    /\ UNCHANGED cleaned
    /\ UNCHANGED <<iterVars, mwVars, extVars>>

Del(u, l, n) ==
    /\ nops < MaxOps
    /\ LET r == Local_delattr(storage[l], get_ident(u), n)
       IN  /\ storage' = [storage EXCEPT ![l] = r.st]
           /\ last' = Outcome("del", u, l, n, r.exc, NoValue)
    /\ nops' = nops + 1
    /\ shadow' = [shadow EXCEPT ![l][get_ident(u)][n] = NoValue]
    /\ streak' = 0
    /\ UNCHANGED <<cleaned, setters, evicted>>
    /\ UNCHANGED <<iterVars, mwVars, extVars>>

Cleanup(u) ==
    /\ nops < MaxOps
    /\ LET r == LocalManager_cleanup(storage, get_ident(u))
       IN  /\ storage' = r.sto
           /\ last' = Outcome("cleanup", u, "", "", r.exc, NoValue)
    /\ nops' = nops + 1
    /\ cleaned' = cleaned \cup {get_ident(u)}
    /\ evicted' = [l \in Locals |-> evicted[l] \cup {get_ident(u)}]
    /\ streak' = IF last.op = "cleanup" /\ get_ident(last.unit) = get_ident(u)
                 THEN streak + 1 ELSE 1
    /\ UNCHANGED <<shadow, setters>>
    /\ UNCHANGED <<iterVars, mwVars, extVars>>

Next ==
    \/ \E u \in Units, l \in Locals, n \in Names : Get(u, l, n)
    \/ \E u \in Units, l \in Locals, n \in Names : \E v \in ValuesOf(u) : Set(u, l, n, v)
    \/ \E u \in Units, l \in Locals, n \in Names : Del(u, l, n)
    \/ \E u \in Units : Cleanup(u)

Spec == Init /\ [][Next]_vars

Managed == {ManagedLocals[i] : i \in 1..Len(ManagedLocals)}

(***************************************************************************)
(* SpecIter: a ClosingIterator around any source, with any callbacks.      *)
(***************************************************************************)
InitIter ==
    /\ InitLocal
    /\ \E len \in 0..MaxBody, srcClose \in BOOLEAN, ncb \in 0..MaxCallbacks :
          \E raising \in SUBSET (1..ncb) :
             ci = ClosingIterator(len, srcClose, [i \in 1..ncb |-> i], raising)
    /\ ciLog = <<>>
    /\ ciCalls = 0
    /\ InitNoRequest
    /\ InitExt

IterNext ==
    /\ ciCalls < MaxCalls
    /\ LET r == ClosingIterator_next(ci)
       IN  /\ ci' = r.it
           /\ ciLog' = ciLog \o << <<"call_next", 0>> >> \o r.events
    /\ ciCalls' = ciCalls + 1
    /\ UNCHANGED <<localVars, mwVars, extVars>>

IterClose ==
    /\ ciCalls < MaxCalls
    /\ LET r == ClosingIterator_close(ci)
       IN  /\ ci' = r.it
           /\ ciLog' = ciLog \o << <<"call_close", 0>> >> \o r.events
    /\ ciCalls' = ciCalls + 1
    /\ UNCHANGED <<localVars, mwVars, extVars>>

NextIter == IterNext \/ IterClose

SpecIter == InitIter /\ [][NextIter]_vars

(***************************************************************************)
(* SpecMw: LocalManager.make_middleware.                                   *)
(***************************************************************************)
\* the units the server handles requests on
Workers == {<<1, 0>>, <<1, 1>>}
\* the attribute the application keeps its request in
AppNames == {"a"}
\* the callback that is LocalManager.cleanup
CleanupCallback == 0

\* as make_middleware_application, but no callback is handed to ClosingIterator
make_middleware_application_bare(len, srcClose) ==
    ClosingIterator(len, srcClose, <<>>, {})

\* what application() returns when app returned a body of len items:
\* ClosingIterator(app(environ, start_response), self.cleanup)
make_middleware_application(len, srcClose) ==
    ClosingIterator(len, srcClose, <<CleanupCallback>>, {})

\* the storages after the callbacks among events were called by identity ident
RECURSIVE AfterCallbacks(_, _, _)
AfterCallbacks(sto, events, ident) ==
    IF events = <<>> THEN sto
    ELSE AfterCallbacks(
            IF Head(events) = <<"cb", CleanupCallback>>
            THEN LocalManager_cleanup(sto, ident).sto ELSE sto,
            Tail(events), ident)

\* how many times cleanup is called among events
CleanupsIn(events) ==
    Cardinality({i \in 1..Len(events) : events[i] = <<"cb", CleanupCallback>>})

Finished(r) == r.phase = "failed" \/ (r.phase = "body" /\ r.it.state = "CLOSED")

InitMw == InitLocal /\ InitNoIter /\ InitNoRequest /\ InitExt

\* the server calls application(environ, start_response), which calls app
MwEnter(u) ==
    /\ req[u].phase = "idle" \/ Finished(req[u])
    /\ req' = [req EXCEPT ![u] = [NoRequest EXCEPT !.phase = "app"]]
    /\ UNCHANGED <<localVars, iterVars, extVars>>

\* app sets an attribute of a Local
AppSet(u, l, n, v) ==
    /\ req[u].phase = "app"
    /\ storage' = [storage EXCEPT ![l] = Local_setattr(@, get_ident(u), n, v)]
    /\ UNCHANGED <<last, nops, shadow, cleaned, setters, evicted, streak, iterVars, mwVars, extVars>>

\* app returns its body, which application() wraps
AppReturn(u, len, srcClose) ==
    /\ req[u].phase = "app"
    /\ req' = [req EXCEPT ![u].phase = "body",
                          ![u].it = make_middleware_application(len, srcClose)]
    /\ UNCHANGED <<localVars, iterVars, extVars>>

\* app raises: the exception leaves application() before ClosingIterator is built
AppRaise(u) ==
    /\ req[u].phase = "app"
    /\ req' = [req EXCEPT ![u].phase = "failed"]
    /\ UNCHANGED <<localVars, iterVars, extVars>>

\* the server asks the wrapped body for its next item
MwNext(u) ==
    /\ req[u].phase = "body"
    /\ LET r == ClosingIterator_next(req[u].it)
       IN  /\ req' = [req EXCEPT ![u].it = r.it,
                                 ![u].cleanups = @ + CleanupsIn(r.events),
                                 ![u].drained = @ \/ req[u].it.pos = req[u].it.len]
           /\ storage' = AfterCallbacks(storage, r.events, get_ident(u))
    /\ UNCHANGED <<last, nops, shadow, cleaned, setters, evicted, streak, iterVars, extVars>>

\* the server closes the wrapped body
MwClose(u) ==
    /\ req[u].phase = "body"
    /\ LET r == ClosingIterator_close(req[u].it)
       IN  /\ req' = [req EXCEPT ![u].it = r.it,
                                 ![u].cleanups = @ + CleanupsIn(r.events),
                                 ![u].closeCalled = TRUE]
           /\ storage' = AfterCallbacks(storage, r.events, get_ident(u))
    /\ UNCHANGED <<last, nops, shadow, cleaned, setters, evicted, streak, iterVars, extVars>>

NextMw ==
    \/ \E u \in Workers : MwEnter(u)
    \/ \E u \in Workers, l \in Locals, n \in AppNames : \E v \in ValuesOf(u) : AppSet(u, l, n, v)
    \/ \E u \in Workers, len \in 0..MaxBody, srcClose \in BOOLEAN : AppReturn(u, len, srcClose)
    \/ \E u \in Workers : AppRaise(u)
    \/ \E u \in Workers : MwNext(u)
    \/ \E u \in Workers : MwClose(u)

SpecMw == InitMw /\ [][NextMw]_vars

(***************************************************************************)
(* SpecLocalIter: one iteration over a Local, while the execution units    *)
(* go on setting, deleting and cleaning up.                                *)
(*                                                                         *)
(* Local.__iter__ returns __storage.iteritems(): the dict's own iterator,  *)
(* created without the lock. It keeps the size the dict had when it was    *)
(* created and a position in the dict's table. Each next call compares the *)
(* size with the dict's current one, then walks on to the next used slot   *)
(* and yields its key with the namespace stored there at that moment. The  *)
(* idents of the model are small integers, whose slots follow their value. *)
(***************************************************************************)
\* iter(local): the fresh iterator over __storage
Local_iter(st) == [used |-> Cardinality(DOMAIN st), pos |-> 0, done |-> FALSE]

\* the smallest element of a non-empty set of integers
Lowest(S) == CHOOSE k \in S : \A j \in S : k <= j

\* [it, out]: the iterator after a next call on it, and what the call produced
DictIter_next(it, st) ==
    IF it.done
    THEN [it |-> it, out |-> <<"StopIteration">>]
    ELSE IF it.used # Cardinality(DOMAIN st)
    THEN [it |-> [it EXCEPT !.used = -1], out |-> <<"RuntimeError">>]
    ELSE LET rest == {k \in DOMAIN st : k >= it.pos}
         IN  IF rest = {}
             THEN [it |-> [it EXCEPT !.done = TRUE], out |-> <<"StopIteration">>]
             ELSE [it |-> [it EXCEPT !.pos = Lowest(rest) + 1],
                   out |-> <<"item", Lowest(rest), st[Lowest(rest)]>>]

\* the items a dict yields when it is walked from position pos with no change
RECURSIVE ItemsFrom(_, _)
ItemsFrom(d, pos) ==
    LET rest == {k \in DOMAIN d : k >= pos}
    IN  IF rest = {} THEN <<>>
        ELSE << <<"item", Lowest(rest), d[Lowest(rest)]>> >> \o ItemsFrom(d, Lowest(rest) + 1)

\* iter(local) is called
LocalIter(l) ==
    /\ lit = NoLocalIter
    /\ lit' = [local |-> l, it |-> Local_iter(storage[l]), snap |-> storage[l]]
    /\ UNCHANGED <<litLog, exceptLit>>

\* next is called on the iterator, as long as it has yielded items only
LocalIterNext ==
    /\ lit # NoLocalIter
    /\ \A j \in 1..Len(litLog) : litLog[j][1] = "item"
    /\ LET r == DictIter_next(lit.it, storage[lit.local])
       IN  /\ lit' = [lit EXCEPT !.it = r.it]
           /\ litLog' = Append(litLog, r.out)
    /\ UNCHANGED exceptLit

NextLocalIter ==
    \/ \E l \in Locals : LocalIter(l)
    \/ LocalIterNext
    \/ \E u \in Units, l \in Locals, n \in Names : \E v \in ValuesOf(u) : Set(u, l, n, v)
    \/ \E u \in Units, l \in Locals, n \in Names : Del(u, l, n)
    \/ \E u \in Units : Cleanup(u)

SpecLocalIter == Init /\ [][NextLocalIter]_vars

(***************************************************************************)
(* SpecIdent: get_ident() called by execution units, each a thread with    *)
(* the greenlet running in it. get_ident() is                              *)
(* hash((get_current_thread(), get_current_greenlet())).                   *)
(***************************************************************************)
\* every pair of a thread and a greenlet
AllUnits == Threads \X Greenlets

\* unit u calls get_ident()
GetIdent(u) ==
    /\ Len(idcalls) < MaxIdentCalls
    /\ idcalls' = Append(idcalls, [unit |-> u, ident |-> get_ident(u)])
    /\ UNCHANGED exceptId

NextIdent == \E u \in AllUnits : GetIdent(u)

SpecIdent == Init /\ [][NextIdent]_vars

(***************************************************************************)
(* SpecKey: is_valid_key applied to one string, with or without a record   *)
(* stored under the file name made from that string.                       *)
(***************************************************************************)
\* the characters a string may be made of
HeadChars == {"a", "0"}
TailChars == {"a", "F", "7", "g", "\n"}

SeqsUpTo(S, n) == UNION {[1..m -> S] : m \in 0..n}

\* 38 to 41 times the same hex character, then up to MaxTail arbitrary ones
Keys ==
    {Rep(c, n) \o t : c \in HeadChars, n \in (KeyLen - 2)..(KeyLen + 1),
                      t \in SeqsUpTo(TailChars, MaxTail)}

InitKey ==
    /\ InitLocal /\ InitNoIter /\ InitNoRequest /\ InitNoLocalIter /\ InitNoIdent
    /\ InitNoSmw /\ InitNoLate
    /\ key \in Keys
    /\ keyValid = <<>>
    /\ files \in {EmptyDict, DictSet(EmptyDict, get_session_filename(key), Pickled(EmptyDict))}
    /\ sess = NoSession
    /\ sLast = NoStoreCall
    /\ saved = EmptyDict
    /\ deleted = EmptyDict
    /\ mLast = NoCall
    /\ sops = 0

\* store.is_valid_key(key) is called
CheckKey ==
    /\ keyValid = <<>>
    /\ keyValid' = <<is_valid_key(key)>>
    /\ UNCHANGED <<key, exceptKey>>

NextKey == CheckKey

SpecKey == InitKey /\ [][NextKey]_vars

(***************************************************************************)
(* SpecSess: an application working with one FilesystemSessionStore. It    *)
(* asks for sessions, new ones or by an identifier that a client supplied, *)
(* assigns items of the session it holds, saves it and deletes it.         *)
(***************************************************************************)
\* the identifiers clients supply: keys the store has generated, the same
\* with a newline after it, a key that is too short, and a relative path
ClientSids ==
    {generate_key(e) : e \in Entropy}
        \cup {generate_key(1) \o <<"\n">>, Rep("a", KeyLen - 1), <<".", ".", "/", "x">>}

\* the record of a store call: at is its number among the operations
StoreCall(op, sid, r) ==
    [op |-> op, sid |-> sid, exc |-> r.exc, ret |-> r.ret, touched |-> r.touched,
     at |-> sops + 1]

\* store.new()
StoreNew(e) ==
    /\ sops < MaxStoreOps
    /\ sess' = SessionStore_new(e)
    /\ sLast' = StoreCall("new", <<>>, [exc |-> "", ret |-> sess', touched |-> {}])
    /\ mLast' = NoCall
    /\ sops' = sops + 1
    /\ UNCHANGED <<files, saved, deleted, exceptSess>>

\* store.get(sid)
StoreGet(sid, e) ==
    /\ sops < MaxStoreOps
    /\ LET r == FilesystemSessionStore_get(files, sid, e)
       IN  /\ sess' = r.ret
           /\ sLast' = StoreCall("get", sid, r)
    /\ mLast' = NoCall
    /\ sops' = sops + 1
    /\ UNCHANGED <<files, saved, deleted, exceptSess>>

\* a method of the held session was called, with outcome r
SessCall(op, r) ==
    /\ sops < MaxStoreOps
    /\ sess # NoSession
    /\ sess' = r.session
    /\ mLast' = [op |-> op, exc |-> r.exc]
    /\ sops' = sops + 1
    /\ UNCHANGED <<files, sLast, saved, deleted, exceptSess>>

\* session[k] = v
SessSetItem(k, v) == SessCall("setitem", [exc |-> "", session |-> Session_setitem(sess, k, v)])

\* del session[k]
SessDelItem(k) == SessCall("delitem", Session_delitem(sess, k))

\* session.clear()
SessClear == SessCall("clear", Session_clear(sess))

\* session.pop(k)
SessPop(k) == SessCall("pop", Session_pop(sess, k))

\* session.popitem(); on an empty session no item is picked
SessPopItem(k) ==
    /\ k \in DOMAIN sess.data \/ sess.data = EmptyDict
    /\ SessCall("popitem", Session_popitem(sess, k))

\* session.setdefault(k, v)
SessSetDefault(k, v) == SessCall("setdefault", Session_setdefault(sess, k, v))

\* session.update(other)
SessUpdate(other) == SessCall("update", Session_update(sess, other))

\* store.save(session)
StoreSave ==
    /\ sops < MaxStoreOps
    /\ sess # NoSession
    /\ files' = FilesystemSessionStore_save(files, sess)
    /\ sLast' = StoreCall("save", sess.sid,
                          [exc |-> "", ret |-> NoSession,
                           touched |-> {<<"open", get_session_filename(sess.sid)>>}])
    /\ saved' = DictSet(saved, sess.sid, sess.data)
    /\ deleted' = DictPop(deleted, sess.sid)
    /\ sops' = sops + 1
    /\ UNCHANGED <<sess, mLast, exceptSess>>

\* store.save_if_modified(session)
StoreSaveIfModified ==
    /\ sops < MaxStoreOps
    /\ sess # NoSession
    /\ LET r == SessionStore_save_if_modified(files, sess)
       IN  /\ files' = r.fs
           /\ sLast' = StoreCall("save_if_modified", sess.sid,
                                 [exc |-> "", ret |-> NoSession, touched |-> r.touched])
           /\ saved' = IF r.touched = {} THEN saved ELSE DictSet(saved, sess.sid, sess.data)
           /\ deleted' = IF r.touched = {} THEN deleted ELSE DictPop(deleted, sess.sid)
    /\ sops' = sops + 1
    /\ UNCHANGED <<sess, mLast, exceptSess>>

\* store.delete(session)
StoreDelete ==
    /\ sops < MaxStoreOps
    /\ sess # NoSession
    /\ files' = FilesystemSessionStore_delete(files, sess)
    /\ sLast' = StoreCall("delete", sess.sid,
                          [exc |-> "", ret |-> NoSession,
                           touched |-> {<<"unlink", get_session_filename(sess.sid)>>}])
    /\ saved' = DictPop(saved, sess.sid)
    /\ deleted' = DictSet(deleted, sess.sid, get_session_filename(sess.sid) \in DOMAIN files)
    /\ sops' = sops + 1
    /\ UNCHANGED <<sess, mLast, exceptSess>>

\* the dicts handed to update
Updates == {EmptyDict} \cup {DictSet(EmptyDict, SessKeys[1], v) : v \in SessValues}

NextSess ==
    \/ \E e \in Entropy : StoreNew(e)
    \/ \E sid \in ClientSids, e \in Entropy : StoreGet(sid, e)
    \/ \E i \in DOMAIN SessKeys, v \in SessValues : SessSetItem(SessKeys[i], v)
    \/ \E i \in DOMAIN SessKeys : SessDelItem(SessKeys[i])
    \/ SessClear
    \/ \E i \in DOMAIN SessKeys : SessPop(SessKeys[i])
    \/ \E i \in DOMAIN SessKeys : SessPopItem(SessKeys[i])
    \/ \E i \in DOMAIN SessKeys, v \in SessValues : SessSetDefault(SessKeys[i], v)
    \/ \E other \in Updates : SessUpdate(other)
    \/ StoreSave
    \/ StoreSaveIfModified
    \/ StoreDelete

SpecSess == Init /\ [][NextSess]_vars

(***************************************************************************)
(* SpecSessMw: requests served one after the other through                 *)
(* SessionMiddleware over a FilesystemSessionStore. The application        *)
(* assigns items of the session, calls start_response, and returns a body  *)
(* or raises; when it is a generator, its code runs while the server       *)
(* iterates the body. The server iterates and closes the wrapped body.     *)
(***************************************************************************)
\* cookie.get(self.cookie_name, None): no session cookie, or the sid it carries
Cookies == {PyNone} \cup {PyStr(sid) : sid \in ClientSids}

\* the directory after the callbacks among events have run, and how many of
\* them wrote the session
RECURSIVE AfterSaveCallbacks(_, _, _)
AfterSaveCallbacks(st, events, session) ==
    IF events = <<>> THEN st
    ELSE AfterSaveCallbacks(
            IF Head(events) = <<"cb", SaveCallback>>
            THEN LET r == SessionMiddleware_cleanup(st.fs, session)
                 IN  [fs |-> r.fs, writes |-> st.writes + IF r.touched = {} THEN 0 ELSE 1]
            ELSE st,
            Tail(events), session)

\* application code may run: before it returns, and inside next() of its body
AppRunning(r) == r.phase = "app" \/ (r.phase = "body" /\ r.it.state = "OPEN")

SmwFinished(r) == r.phase = "failed" \/ (r.phase = "body" /\ r.it.state = "CLOSED")

InitSmw ==
    /\ InitLocal /\ InitNoIter /\ InitNoRequest
    /\ InitNoLocalIter /\ InitNoIdent /\ InitNoKey /\ InitNoSession /\ InitNoLate
    /\ \E age \in CookieAges : smw = [NoSmwRequest EXCEPT !.age = age]
    /\ mwFiles = EmptyDict
    /\ nreq = 0

\* the server calls the middleware: it loads or creates the session and calls app
SmwEnter(c, e) ==
    /\ nreq < MaxRequests
    /\ smw.phase = "idle" \/ SmwFinished(smw)
    /\ smw' = [NoSmwRequest EXCEPT
                  !.phase = "app",
                  !.age = smw.age,
                  !.session = IF c = PyNone THEN SessionStore_new(e)
                              ELSE FilesystemSessionStore_get(mwFiles, Tail(c), e).ret]
    /\ nreq' = nreq + 1
    /\ UNCHANGED <<mwFiles, exceptSmw>>

\* app assigns an item of environ['werkzeug.session']
SmwAppSet(k, v) ==
    /\ AppRunning(smw)
    /\ smw' = [smw EXCEPT !.session = Session_setitem(@, k, v)]
    /\ UNCHANGED <<mwFiles, nreq, exceptSmw>>

\* app calls start_response with a list of headers, or with an object whose
\* append takes a name and a value; an exception of the call ends the request
SmwStartResponse(headers) ==
    /\ AppRunning(smw)
    /\ ~smw.started
    /\ LET r == injecting_start_response(smw.session, smw.age, headers)
       IN  smw' = [smw EXCEPT !.started = TRUE,
                              !.header = r.header,
                              !.exc = r.exc,
                              !.phase = IF r.exc = "" THEN @ ELSE "failed"]
    /\ UNCHANGED <<mwFiles, nreq, exceptSmw>>

\* app returns its body, which the middleware wraps
SmwAppReturn(len, srcClose) ==
    /\ smw.phase = "app"
    /\ smw' = [smw EXCEPT !.phase = "body",
                          !.it = ClosingIterator(len, srcClose, <<SaveCallback>>, {})]
    /\ UNCHANGED <<mwFiles, nreq, exceptSmw>>

\* app raises: the exception leaves the middleware
SmwAppRaise ==
    /\ smw.phase = "app"
    /\ smw' = [smw EXCEPT !.phase = "failed", !.exc = "AppError"]
    /\ UNCHANGED <<mwFiles, nreq, exceptSmw>>

\* the server asks the wrapped body for its next item
SmwNext ==
    /\ smw.phase = "body"
    /\ LET r == ClosingIterator_next(smw.it)
           st == AfterSaveCallbacks([fs |-> mwFiles, writes |-> smw.writes],
                                    r.events, smw.session)
       IN  /\ smw' = [smw EXCEPT !.it = r.it,
                                 !.writes = st.writes,
                                 !.drained = @ \/ smw.it.pos = smw.it.len]
           /\ mwFiles' = st.fs
    /\ UNCHANGED <<nreq, exceptSmw>>

\* the server closes the wrapped body
SmwClose ==
    /\ smw.phase = "body"
    /\ LET r == ClosingIterator_close(smw.it)
           st == AfterSaveCallbacks([fs |-> mwFiles, writes |-> smw.writes],
                                    r.events, smw.session)
       IN  /\ smw' = [smw EXCEPT !.it = r.it,
                                 !.writes = st.writes,
                                 !.closeCalled = TRUE]
           /\ mwFiles' = st.fs
    /\ UNCHANGED <<nreq, exceptSmw>>

NextSmw ==
    \/ \E c \in Cookies, e \in Entropy : SmwEnter(c, e)
    \/ \E v \in SessValues : SmwAppSet(SessKeys[1], v)
    \/ \E headers \in {"list", "appendable"} : SmwStartResponse(headers)
    \/ \E len \in 0..MaxBody, srcClose \in BOOLEAN : SmwAppReturn(len, srcClose)
    \/ SmwAppRaise
    \/ SmwNext
    \/ SmwClose

SpecSessMw == InitSmw /\ [][NextSmw]_vars

(***************************************************************************)
(* SpecSessFault: an application working with one FilesystemSessionStore   *)
(* on a file system whose calls can fail. It asks for sessions, assigns    *)
(* items, saves and deletes; in each store call at most one of the system  *)
(* calls it makes fails.                                                   *)
(***************************************************************************)
\* the record of a store call on the failing file system
IoCall(op, fault, exc) == [op |-> op, fault |-> fault, exc |-> exc]

\* store.save(session), where fault fails
IoSave(fault) ==
    /\ sops < MaxStoreOps
    /\ sess # NoSession
    /\ LET r == FilesystemSessionStore_save_io(files, sess, fault)
           fn == get_session_filename(sess.sid)
       IN  /\ files' = r.fs
           /\ sLast' = StoreCall("save", sess.sid,
                                 [exc |-> r.exc, ret |-> NoSession,
                                  touched |-> {<<"open", fn>>}])
           /\ saved' = CASE r.exc = "" -> DictSet(saved, sess.sid, sess.data)
                         [] fault = "write" -> DictPop(saved, sess.sid)
                         [] OTHER -> saved
           /\ deleted' = IF fault = "open" THEN deleted ELSE DictPop(deleted, sess.sid)
           /\ io' = IoCall("save", fault, r.exc)
    /\ sops' = sops + 1
    /\ UNCHANGED <<sess, mLast, exceptSessIo>>

\* store.get(sid), where fault fails; the session is held if get returns one
IoGet(sid, e, fault) ==
    /\ sops < MaxStoreOps
    /\ fault \in GetFaults(files, sid) \cup {"none"}
    /\ LET r == FilesystemSessionStore_get_io(files, sid, e, fault)
       IN  /\ sess' = IF r.exc = "" THEN r.ret ELSE sess
           /\ mLast' = IF r.exc = "" THEN NoCall ELSE mLast
           /\ sLast' = StoreCall("get", sid,
                                 [exc |-> r.exc, ret |-> r.ret,
                                  touched |-> {<<c, get_session_filename(sid)>> :
                                                  c \in GetFaults(files, sid)}])
           /\ io' = IoCall("get", fault, r.exc)
    /\ sops' = sops + 1
    /\ UNCHANGED <<files, saved, deleted, exceptSessIo>>

\* store.delete(session), where fault fails
IoDelete(fault) ==
    /\ sops < MaxStoreOps
    /\ sess # NoSession
    /\ LET r == FilesystemSessionStore_delete_io(files, sess, fault)
           fn == get_session_filename(sess.sid)
       IN  /\ files' = r.fs
           /\ sLast' = StoreCall("delete", sess.sid,
                                 [exc |-> r.exc, ret |-> NoSession,
                                  touched |-> {<<"unlink", fn>>}])
           /\ saved' = IF fn \in DOMAIN r.fs THEN saved ELSE DictPop(saved, sess.sid)
           /\ deleted' = IF fn \in DOMAIN r.fs THEN deleted
                         ELSE DictSet(deleted, sess.sid, fn \in DOMAIN files)
           /\ io' = IoCall("delete", fault, r.exc)
    /\ sops' = sops + 1
    /\ UNCHANGED <<sess, mLast, exceptSessIo>>

NextSessFault ==
    \/ \E e \in Entropy : StoreNew(e)
    \/ \E v \in SessValues : SessSetItem(SessKeys[1], v)
    \/ \E fault \in SaveFaults \cup {"none"} : IoSave(fault)
    \/ \E sid \in ClientSids, e \in Entropy, fault \in {"none", "stat", "open", "read"} :
            IoGet(sid, e, fault)
    \/ \E fault \in DeleteFaults \cup {"none"} : IoDelete(fault)

SpecSessFault == Init /\ [][NextSessFault]_vars

(***************************************************************************)
(* SpecGen: generate_key() called again and again.                         *)
(***************************************************************************)
\* generate_key(), hashing the entropy e
GenerateKey(e) ==
    /\ Len(genLog) < MaxGenCalls
    /\ genLog' = Append(genLog, [e |-> e, key |-> generate_key(e)])
    /\ UNCHANGED exceptGen

NextGen == \E e \in Entropy : GenerateKey(e)

SpecGen == Init /\ [][NextGen]_vars

(***************************************************************************)
(* SpecRun: a caller runs applications through run_wsgi_app, buffered or   *)
(* not, takes elements from the iterator it gets back and, as a WSGI       *)
(* server does, closes it at most once.                                    *)
(***************************************************************************)
\* run_wsgi_app is called for an application that returns body
RunStart(body, hasClose, buffered) ==
    /\ nruns < MaxRuns
    /\ wrun' = run_wsgi_app(body, hasClose, buffered)
    /\ gotClose' = gotClose + wrun'.closes
    /\ nruns' = nruns + 1
    /\ UNCHANGED exceptRun

\* the caller asks for the next element, until the end has been signalled
RunNext ==
    /\ wrun.phase = "run" /\ ~wrun.ended /\ ~wrun.callerClosed
    /\ wrun' = AppIter_next(wrun)
    /\ UNCHANGED <<gotClose, nruns, exceptRun>>

\* the caller closes the iterator of an unbuffered run
RunClose ==
    /\ wrun.phase = "run" /\ ~wrun.buffered /\ ~wrun.callerClosed
    /\ wrun' = AppIter_close(wrun)
    /\ gotClose' = gotClose + (wrun'.closes - wrun.closes)
    /\ UNCHANGED <<nruns, exceptRun>>

NextRun ==
    \/ \E body \in RunBodies, hasClose \in BOOLEAN, buffered \in BOOLEAN :
            RunStart(body, hasClose, buffered)
    \/ RunNext
    \/ RunClose

SpecRun == Init /\ [][NextRun]_vars

(***************************************************************************)
(* SpecLock: two threads call get, set, delete and iteration on Locals and *)
(* LocalManager.cleanup, and are preempted between any two statements.     *)
(***************************************************************************)
\* thread u begins a call
LkCall(u, op, l) ==
    /\ lops < MaxLockOps
    /\ pc[u].at = "idle"
    /\ pc' = [pc EXCEPT ![u] = Local_enter(op, l)]
    /\ lops' = lops + 1
    /\ UNCHANGED <<lk, lstore, acc, exceptLock>>

\* __lock.acquire() returns once the lock is free
LkAcquire(u) ==
    /\ pc[u].at = "acquire"
    /\ lk[pc[u].local] = NoUnit
    /\ lk' = [lk EXCEPT ![pc[u].local] = u]
    /\ pc' = [pc EXCEPT ![u].at = "body"]
    /\ UNCHANGED <<lstore, acc, lops, exceptLock>>

\* the try block reads or changes __storage
LkBody(u) ==
    /\ pc[u].at = "body"
    /\ LET c == pc[u]
           r == Local_body(c, u, lstore[c.local])
       IN  /\ lstore' = [lstore EXCEPT ![c.local] = r.st]
           /\ pc' = [pc EXCEPT ![u].at = "finally", ![u].exc = r.exc]
           /\ acc' = [op |-> c.op, unit |-> u, local |-> c.local,
                      held |-> lk[c.local] = u]
    /\ UNCHANGED <<lk, lops, exceptLock>>

\* the finally clause releases the lock
LkRelease(u) ==
    /\ pc[u].at = "finally"
    /\ lk' = [lk EXCEPT ![pc[u].local] = Local_finally(pc[u], u)]
    /\ pc' = [pc EXCEPT ![u] = Local_leave(pc[u])]
    /\ UNCHANGED <<lstore, acc, lops, exceptLock>>

\* next() on the iterator that iter(local) returned reads __storage
LkIterNext(u) ==
    /\ pc[u].at = "iterating"
    /\ acc' = [op |-> "iter", unit |-> u, local |-> pc[u].local,
               held |-> lk[pc[u].local] = u]
    /\ pc' = [pc EXCEPT ![u] = NoPc]
    /\ UNCHANGED <<lk, lstore, lops, exceptLock>>

NextLock ==
    \/ \E u \in LockUnits, op \in {"get", "set", "del", "cleanup", "iter"}, l \in LockLocals :
            LkCall(u, op, l)
    \/ \E u \in LockUnits : LkAcquire(u)
    \/ \E u \in LockUnits : LkBody(u)
    \/ \E u \in LockUnits : LkRelease(u)
    \/ \E u \in LockUnits : LkIterNext(u)

SpecLock == Init /\ [][NextLock]_vars

\* SpecLock with the scheduling of threads: a thread that is running goes on
\* to its next statement, and acquire() returns when the lock stays free
LockFairness ==
    \A u \in LockUnits :
        /\ WF_vars(LkAcquire(u))
        /\ WF_vars(LkBody(u))
        /\ WF_vars(LkRelease(u))

SpecLockFair == Init /\ [][NextLock]_vars /\ LockFairness

(***************************************************************************)
(* SpecGet: get(key) is called once, on a base SessionStore or on a        *)
(* FilesystemSessionStore, for any of the strings of SpecKey.              *)
(***************************************************************************)
\* SessionStore().get(key)
BaseGet ==
    /\ sLast = NoStoreCall
    /\ sess' = SessionStore_get(key)
    /\ sLast' = StoreCall("base_get", key, [exc |-> "", ret |-> sess', touched |-> {}])
    /\ sops' = sops + 1
    /\ UNCHANGED <<files, saved, deleted, mLast, exceptSess>>

\* FilesystemSessionStore().get(key)
FsGet(e) ==
    /\ sLast = NoStoreCall
    /\ LET r == FilesystemSessionStore_get(files, key, e)
       IN  /\ sess' = r.ret
           /\ sLast' = StoreCall("get", key, r)
    /\ sops' = sops + 1
    /\ UNCHANGED <<files, saved, deleted, mLast, exceptSess>>

NextGet ==
    \/ BaseGet
    \/ \E e \in Entropy : FsGet(e)

SpecGet == InitKey /\ [][NextGet]_vars

(***************************************************************************)
(* SpecNested: an application keeps a list in its session, appends to the  *)
(* list in place, sets modified by hand or not, and saves.                 *)
(***************************************************************************)
\* the mutable value the application stores: an empty list
EmptyList == <<>>

\* session[k] = []
SessSetList(k) == SessSetItem(k, EmptyList)

\* session[k].append(x); the list is told from a number by its being a sequence
SessNestedAppend(k, x) ==
    /\ sess # NoSession
    /\ k \in DOMAIN sess.data
    /\ sess.data[k] \in Seq(SessValues)
    /\ SessCall("nested", [exc |-> "", session |-> Session_nested_append(sess, k, x)])

\* session.modified = True
SessSetModified ==
    /\ sess # NoSession
    /\ SessCall("set_modified", [exc |-> "", session |-> Session_set_modified(sess)])

NextNested ==
    \/ \E e \in Entropy : StoreNew(e)
    \/ \E e \in Entropy : StoreGet(generate_key(e), e)
    \/ SessSetList(SessKeys[1])
    \/ SessNestedAppend(SessKeys[1], 1)
    \/ SessSetModified
    \/ StoreSaveIfModified

\* the session directory is empty, or holds a session that was saved with an
\* empty list in it
InitNested ==
    /\ InitLocal /\ InitNoIter /\ InitNoRequest
    /\ InitNoLocalIter /\ InitNoIdent /\ InitNoKey /\ InitNoSmw /\ InitNoLate
    /\ \E d \in {EmptyDict, DictSet(EmptyDict, generate_key(1),
                                      DictSet(EmptyDict, SessKeys[1], EmptyList))} :
            /\ saved = d
            /\ files = [fn \in {get_session_filename(sid) : sid \in DOMAIN d} |->
                            Pickled(d[CHOOSE sid \in DOMAIN d : get_session_filename(sid) = fn])]
    /\ sess = NoSession
    /\ sLast = NoStoreCall
    /\ deleted = EmptyDict
    /\ mLast = NoCall
    /\ sops = 0

SpecNested == InitNested /\ [][NextNested]_vars

(***************************************************************************)
(* SpecCopy: an application assigns items of a session and copies it.      *)
(***************************************************************************)
\* session.copy()
SessCopy(newOk) ==
    /\ sops < MaxStoreOps
    /\ sess # NoSession
    /\ LET r == Session_copy(sess, newOk)
       IN  mLast' = [op |-> "copy", exc |-> r.exc, ret |-> r.ret]
    /\ sops' = sops + 1
    /\ UNCHANGED <<files, sess, sLast, saved, deleted, exceptSess>>

NextCopy ==
    \/ \E e \in Entropy : StoreNew(e)
    \/ \E i \in DOMAIN SessKeys, v \in SessValues : SessSetItem(SessKeys[i], v)
    \/ \E newOk \in BOOLEAN : SessCopy(newOk)

SpecCopy == Init /\ [][NextCopy]_vars

(***************************************************************************)
(* SpecRace: one thread saves and deletes a session while another gets it  *)
(* by its (valid) sid; the threads are preempted between any two file      *)
(* system calls.                                                           *)
(***************************************************************************)
GetInFlight == gt.at \in {"exists", "opened"}

\* the namespace in file f, if it holds a whole record
Persisted(f) == IF f = <<>> \/ f = <<Truncated>> THEN {} ELSE {Unpickled(f[1])}

\* save(session): file(fn, 'wb')
RaceSaveOpen(d) ==
    /\ rops < MaxRaceOps
    /\ wr.at = "idle"
    /\ wr' = [at |-> "opened", data |-> d, prev |-> rfs]
    /\ rfs' = Save_open(rfs)
    /\ gt' = IF GetInFlight
             THEN [gt EXCEPT !.cands = @ \cup {d}, !.overlap = @ \cup {"save"}]
             ELSE gt
    /\ rops' = rops + 1
    /\ UNCHANGED exceptRace

\* save(session): dump and close
RaceSaveClose ==
    /\ wr.at = "opened"
    /\ rfs' = Save_close(rfs, wr.data)
    /\ wr' = NoWriter
    /\ UNCHANGED <<gt, rops, exceptRace>>

\* delete(session): unlink; a thread that holds the file open keeps its bytes
RaceDelete ==
    /\ rops < MaxRaceOps
    /\ wr.at = "idle"
    /\ rfs' = Delete_unlink(rfs)
    /\ gt' = IF GetInFlight
             THEN [gt EXCEPT !.h = IF gt.at = "opened" /\ @ = <<>> THEN rfs ELSE @,
                             !.mayNew = TRUE,
                             !.overlap = @ \cup {"delete"}]
             ELSE gt
    /\ rops' = rops + 1
    /\ UNCHANGED <<wr, exceptRace>>

\* get(sid): the key is valid; path.exists(fn), and new() if it is False
RaceGetExists ==
    /\ rops < MaxRaceOps
    /\ gt.at \in {"idle", "done"}
    /\ LET saving == wr.at = "opened"
           g == [NoGetter EXCEPT
                    !.cands = IF saving THEN Persisted(wr.prev) \cup {wr.data}
                              ELSE Persisted(rfs),
                    !.mayNew = IF saving THEN wr.prev = <<>> ELSE rfs = <<>>,
                    !.overlap = IF saving THEN {"save"} ELSE {}]
       IN  gt' = IF Get_exists(rfs)
                 THEN [g EXCEPT !.at = "exists"]
                 ELSE [g EXCEPT !.at = "done", !.new = TRUE]
    /\ rops' = rops + 1
    /\ UNCHANGED <<rfs, wr, exceptRace>>

\* get(sid): file(fn, 'rb')
RaceGetOpen ==
    /\ gt.at = "exists"
    /\ gt' = IF Get_open(rfs).exc = ""
             THEN [gt EXCEPT !.at = "opened"]
             ELSE [gt EXCEPT !.at = "done", !.exc = Get_open(rfs).exc]
    /\ UNCHANGED <<rfs, wr, rops, exceptRace>>

\* get(sid): load, close, and the session is made
RaceGetLoad ==
    /\ gt.at = "opened"
    /\ LET r == Get_load(IF gt.h # <<>> THEN gt.h[1] ELSE rfs[1])
       IN  gt' = [gt EXCEPT !.at = "done", !.exc = r.exc, !.data = r.data]
    /\ UNCHANGED <<rfs, wr, rops, exceptRace>>

NextRace ==
    \/ \E d \in RaceData : RaceSaveOpen(d)
    \/ RaceSaveClose
    \/ RaceDelete
    \/ RaceGetExists
    \/ RaceGetOpen
    \/ RaceGetLoad

SpecRace == Init /\ [][NextRace]_vars

(***************************************************************************)
(* Properties of LocalManager.make_middleware.                             *)
(***************************************************************************)
\* no other worker shares u's identity
AloneOnIdent(u) == \A w \in Workers \ {u} : get_ident(w) # get_ident(u)

NoEntry(u) == \A l \in Managed : get_ident(u) \notin DOMAIN storage[l]

\* C5: in a request served through make_middleware, cleanup has run at most
\* once, and not before either all items of the body were handed out or close
\* was called; once next was called on the exhausted body, or close was
\* called, it has run, and the managed Locals hold nothing for the identity.
C5_CleanupAfterBody ==
    \A u \in Workers :
        LET r == req[u]
        IN  /\ r.cleanups <= 1
            /\ r.cleanups >= 1 => (r.phase = "body" /\ (r.closeCalled \/ r.it.pos = r.it.len))
            /\ (r.drained \/ r.closeCalled) => r.cleanups = 1
            /\ ((r.drained \/ r.closeCalled) /\ AloneOnIdent(u)) => NoEntry(u)

\* a body of two items was drained and never closed, after the application
\* had set an attribute that the cleanup then evicted
C5_Witness ==
    \E u \in Workers :
        /\ req[u].phase = "body"
        /\ req[u].it.len = MaxBody
        /\ req[u].drained
        /\ ~req[u].closeCalled
        /\ req[u].cleanups = 1
        /\ NoEntry(u)
        /\ get_ident(u) \in DOMAIN storage["l3"]

\* C6: when the application raised instead of returning a body, cleanup has
\* run in that request and the managed Locals hold nothing for the identity.
C6_CleanupOnAppFailure ==
    \A u \in Workers :
        req[u].phase = "failed" =>
            /\ req[u].cleanups >= 1
            /\ AloneOnIdent(u) => NoEntry(u)

\* a request is in flight from the call of application() until its body is
\* closed, by close() or by the next call that finds it exhausted
InFlight(r) == r.phase = "app" \/ (r.phase = "body" /\ r.it.state # "CLOSED")

\* C15 as stated: the namespaces that requests create in a managed Local are
\* all removed again when the requests end, so a managed Local never holds
\* more namespaces than there are requests in flight.
C15_EntriesWithinRequests ==
    \A l \in Managed :
        Cardinality(DOMAIN storage[l]) <= Cardinality({u \in Workers : InFlight(req[u])})

(***************************************************************************)
(* Reading the log of a ClosingIterator.                                   *)
(***************************************************************************)
IsCb(e) == e[1] = "cb"
IsEffect(e) == e[1] \in {"src_close", "cb"}
IsItem(e) == e[1] = "item"

\* the callbacks that were called, in the order of their calls
CbRun(log) == LET c == SelectSeq(log, IsCb) IN [i \in 1..Len(c) |-> c[i][2]]

ItemsBefore(log, i) == Len(SelectSeq(SubSeq(log, 1, i - 1), IsItem))

\* the calls that end the iteration: a close, or a next on the exhausted source
Ends(log, len) ==
    {i \in 1..Len(log) :
        \/ log[i][1] = "call_close"
        \/ log[i][1] = "call_next" /\ ItemsBefore(log, i) = len}

\* the first of them (0: none yet)
FirstEnd(log, len) ==
    IF Ends(log, len) = {} THEN 0
    ELSE CHOOSE i \in Ends(log, len) : \A j \in Ends(log, len) : i <= j

EndKind(log, len) ==
    IF FirstEnd(log, len) = 0 THEN "none" ELSE log[FirstEnd(log, len)][1]

Count(seq, x) == Cardinality({i \in 1..Len(seq) : seq[i] = x})

(***************************************************************************)
(* Properties of ClosingIterator.                                          *)
(***************************************************************************)

\* C7: once the iterator was drained to exhaustion, every callback has been
\* called exactly once, in attachment order, before any end-of-sequence was
\* reported; a close() after that calls nothing and just returns.
C7_DrainRunsCallbacks ==
    EndKind(ciLog, ci.len) = "call_next" =>
        /\ CbRun(ciLog) = ci.cbs
        /\ \A j, k \in 1..Len(ciLog) :
              (ciLog[j][1] = "eos" /\ ciLog[k][1] = "cb") => k < j
        /\ \A j \in 1..Len(ciLog) :
              ciLog[j][1] = "call_close"
                 => (j < Len(ciLog) /\ ciLog[j + 1] = <<"return", 0>>)
        /\ \A j \in 1..Len(ciLog) : ciLog[j][1] # "src_close"

\* a source of at least one item with two callbacks was drained, end-of-sequence
\* was reported, and close() was called afterwards
C7_Witness ==
    /\ EndKind(ciLog, ci.len) = "call_next"
    /\ ci.len >= 1
    /\ Len(ci.cbs) >= 2
    /\ \E j, k \in 1..Len(ciLog) :
          j < k /\ ciLog[j][1] = "eos" /\ ciLog[k][1] = "call_close"

\* C8: before a drain to exhaustion or a close() no callback has been called;
\* from the first of them on, whatever calls follow, each callback has been
\* called exactly once in total.
C8_CallbacksOnce ==
    LET e == FirstEnd(ciLog, ci.len)
    IN  IF e = 0
        THEN CbRun(ciLog) = <<>>
        ELSE /\ \A i \in 1..Len(ci.cbs) : Count(CbRun(ciLog), ci.cbs[i]) = 1
             /\ \A k \in 1..Len(ciLog) : ciLog[k][1] = "cb" => k > e

\* after the first close or drain, a next and a close were called again
C8_Witness ==
    LET e == FirstEnd(ciLog, ci.len)
    IN  /\ e # 0
        /\ Len(ci.cbs) >= 2
        /\ \E j, k \in (e + 1)..Len(ciLog) :
              ciLog[j][1] = "call_next" /\ ciLog[k][1] = "call_close"

\* C9: a close() on an OPEN iterator calls the source's close first (when the
\* source has one), then the callbacks in attachment order, and leaves the
\* iterator CLOSED.
C9_CloseOrder ==
    EndKind(ciLog, ci.len) = "call_close" =>
        /\ ci.state = "CLOSED"
        /\ SelectSeq(ciLog, IsEffect) =
              (IF ci.srcClose THEN << <<"src_close", 0>> >> ELSE <<>>)
                 \o [i \in 1..Len(ci.cbs) |-> <<"cb", ci.cbs[i]>>]
        /\ \A k \in 1..Len(ciLog) :
              IsEffect(ciLog[k]) => k > FirstEnd(ciLog, ci.len)

\* an iterator with items left, a source that has close and two callbacks was closed
C9_Witness ==
    /\ EndKind(ciLog, ci.len) = "call_close"
    /\ ci.srcClose
    /\ Len(ci.cbs) >= 2
    /\ ci.pos < ci.len

\* C10: when a callback raised, all callbacks have been called all the same,
\* and the call raised, after the last callback, the error of the callback
\* that was the first to fail.
C10_CallbackFailure ==
    LET run == CbRun(ciLog)
    IN  (\E i \in 1..Len(run) : run[i] \in ci.raising) =>
            /\ run = ci.cbs
            /\ \E j \in 1..Len(ciLog) :
                  /\ ciLog[j][1] = "error"
                  /\ ciLog[j][2] \in ci.raising
                  /\ \A i \in 1..Len(run) :
                        (run[i] \in ci.raising /\ run[i] # ciLog[j][2])
                           => \E h \in 1..(i - 1) : run[h] = ciLog[j][2]
                  /\ \A k \in 1..Len(ciLog) : ciLog[k][1] = "cb" => k < j
            /\ Cardinality({j \in 1..Len(ciLog) : ciLog[j][1] = "error"}) = 1

\* the first of two callbacks raised, and so did the second
C10_Witness ==
    /\ Len(ci.cbs) >= 2
    /\ {ci.cbs[1], ci.cbs[2]} \subseteq ci.raising
    /\ CbRun(ciLog) = ci.cbs
    /\ \E j \in 1..Len(ciLog) : ciLog[j] = <<"error", ci.cbs[1]>>

(***************************************************************************)
(* Properties of the Local registry and of LocalManager.cleanup.           *)
(***************************************************************************)

\* C1: isolation. A get never returns a value that another identity wrote, and
\* a get of a name that the calling identity never set on that Local (whoever
\* else did) is an attribute error.
C1_Isolation ==
    last.op = "get" =>
        /\ last.exc = "" => get_ident(Owner(last.ret)) = get_ident(last.unit)
        /\ get_ident(last.unit) \notin setters[last.local][last.name]
               => last.exc = "AttributeError"

\* a get by one identity fails on a name that only another identity has set,
\* while that other identity's value is stored in the same Local
C1_Witness ==
    /\ last.op = "get"
    /\ last.exc = "AttributeError"
    /\ get_ident(last.unit) \notin setters[last.local][last.name]
    /\ \E i \in setters[last.local][last.name] :
          /\ i # get_ident(last.unit)
          /\ i \in DOMAIN storage[last.local]
          /\ last.name \in DOMAIN storage[last.local][i]

\* C2: read-your-writes. For an identity that has not called cleanup, a get
\* returns what the plain name -> value map replayed from that identity's set
\* and delete calls holds, and fails exactly when that map lacks the name.
C2_ReadYourWrites ==
    (last.op = "get" /\ get_ident(last.unit) \notin cleaned) =>
        LET m == shadow[last.local][get_ident(last.unit)]
        IN  IF m[last.name] = NoValue
            THEN last.exc = "AttributeError"
            ELSE last.exc = "" /\ last.ret = m[last.name]

\* a get returns a value while the identity holds a second name as well
C2_Witness ==
    /\ last.op = "get"
    /\ get_ident(last.unit) \notin cleaned
    /\ last.exc = ""
    /\ last.ret = shadow[last.local][get_ident(last.unit)][last.name]
    /\ \E n \in Names \ {last.name} :
          shadow[last.local][get_ident(last.unit)][n] # NoValue

\* C3: cleanup raises nothing and leaves no namespace of the calling identity
\* in any managed Local; from then on, until that identity sets on the Local
\* again, a get of any name by it on a managed Local fails.
C3_CleanupEvicts ==
    /\ last.op = "cleanup" => last.exc = ""
    /\ \A l \in Managed : \A i \in evicted[l] :
          /\ i \notin DOMAIN storage[l]
          /\ \A n \in Names : Local_getattr(storage[l], i, n).exc = "AttributeError"
    /\ (last.op = "get" /\ last.local \in Managed
           /\ get_ident(last.unit) \in evicted[last.local])
          => last.exc = "AttributeError"

\* after a cleanup that found an entry in one managed Local and none in the
\* other, a get of a name the identity had set fails
C3_Witness ==
    /\ last.op = "get"
    /\ last.local \in Managed
    /\ get_ident(last.unit) \in evicted[last.local]
    /\ shadow[last.local][get_ident(last.unit)][last.name] # NoValue
    /\ last.exc = "AttributeError"
    /\ \E l \in Managed \ {last.local} :
          \A n \in Names : get_ident(last.unit) \notin setters[l][n]

\* C4: cleanup is idempotent. A cleanup that directly follows a cleanup by the
\* same identity raises nothing and changes no Local.
C4_CleanupIdempotent ==
    [][(nops' = nops + 1 /\ streak' >= 2) => (storage' = storage /\ last'.exc = "")]_vars

\* two cleanups in a row by an identity whose namespace the first one evicted
C4_Witness ==
    /\ streak >= 2
    /\ last.op = "cleanup"
    /\ \E l \in Managed : \E n \in Names : get_ident(last.unit) \in setters[l][n]

C12_DeleteEffect ==
    [][(nops' = nops + 1 /\ last'.op = "del") =>
         LET l == last'.local
             n == last'.name
             i == get_ident(last'.unit)
         IN  IF i \notin DOMAIN storage[l] \/ n \notin DOMAIN storage[l][i]
             THEN last'.exc # "" /\ storage' = storage
             ELSE /\ last'.exc = ""
                  /\ DOMAIN storage'[l] = DOMAIN storage[l]
                  /\ DOMAIN storage'[l][i] = DOMAIN storage[l][i] \ {n}
                  /\ \A m \in DOMAIN storage'[l][i] : storage'[l][i][m] = storage[l][i][m]
                  /\ \A j \in DOMAIN storage[l] \ {i} : storage'[l][j] = storage[l][j]
                  /\ \A k \in Locals \ {l} : storage'[k] = storage[k]
      ]_vars

\* a delete has removed the only name of a namespace, which is still there
C12_Witness ==
    /\ last.op = "del"
    /\ last.exc = ""
    /\ get_ident(last.unit) \in DOMAIN storage[last.local]
    /\ storage[last.local][get_ident(last.unit)] = EmptyDict

\* C13: a Local holds a namespace for an identity exactly when the identity has
\* set on that Local and, for a managed Local, has not been evicted by cleanup
\* since its latest set there. No get and no delete adds a namespace.
C13_EntryIffSet ==
    \A l \in Locals : \A i \in Idents :
        i \in DOMAIN storage[l]
            <=> /\ \E n \in Names : i \in setters[l][n]
                /\ l \in Managed => i \notin evicted[l]

\* a delete fails for an identity that has set on the Local and was evicted
\* from it, and the Local still holds no namespace for it
C13_Witness ==
    /\ last.op = "del"
    /\ last.exc # ""
    /\ last.local \in Managed
    /\ get_ident(last.unit) \in evicted[last.local]
    /\ \E n \in Names : get_ident(last.unit) \in setters[last.local][n]
    /\ get_ident(last.unit) \notin DOMAIN storage[last.local]

(***************************************************************************)
(* Properties of the iteration over a Local.                               *)
(***************************************************************************)

\* C14 as stated: an iteration yields the snapshot taken when it began. The
\* j-th next call yields the j-th entry the Local held at that moment, with
\* the namespace as it was then, the call after the last entry ends the
\* iteration, and no call fails, whatever sets and cleanups happen meanwhile.
C14_IterationIsSnapshot ==
    lit # NoLocalIter =>
        LET s == ItemsFrom(lit.snap, 0)
        IN  \A j \in 1..Len(litLog) :
               /\ litLog[j][1] # "RuntimeError"
               /\ litLog[j][1] = "item" => (j <= Len(s) /\ litLog[j] = s[j])
               /\ litLog[j][1] = "StopIteration" => j = Len(s) + 1

(***************************************************************************)
(* Properties of get_ident.                                                *)
(***************************************************************************)

\* C16 as stated: get_ident() returns different values to two units that
\* differ in thread or in greenlet, and the same value to one unit each time
\* it is called.
C16_IdentsUnique ==
    \A i, j \in 1..Len(idcalls) :
        /\ idcalls[i].unit # idcalls[j].unit => idcalls[i].ident # idcalls[j].ident
        /\ idcalls[i].unit = idcalls[j].unit => idcalls[i].ident = idcalls[j].ident

(***************************************************************************)
(* Properties of the session keys and of the FilesystemSessionStore.       *)
(***************************************************************************)

\* C17 as stated: is_valid_key(key) is true exactly when key is 40 hex
\* characters and nothing else, whether or not a record is stored for it.
C17_ExactlyFortyHex ==
    keyValid # <<>> => (keyValid[1] <=> IsKeyFormat(key))

\* the file names a store call touched
TouchedNames(c) == {a[2] : a \in c.touched}

\* C18: get(sid) raises nothing. For an sid that is not 40 hex characters, or
\* that no record is stored for, it returns what new() returns: an empty
\* namespace, new = true and a generated key, not the sid. For a well-formed
\* sid with a record it returns the stored namespace under that sid, with
\* new = false.
C18_GetNeverRaises ==
    sLast.op = "get" =>
        /\ sLast.exc = ""
        /\ IF ~IsKeyFormat(sLast.sid) \/ get_session_filename(sLast.sid) \notin DOMAIN files
           THEN /\ sLast.ret.new
                /\ sLast.ret.data = EmptyDict
                /\ ~sLast.ret.modified
                /\ \E e \in Entropy : sLast.ret.sid = generate_key(e)
                /\ is_valid_key(sLast.ret.sid)
           ELSE /\ ~sLast.ret.new
                /\ sLast.ret.sid = sLast.sid
                /\ sLast.ret.data = Unpickled(files[get_session_filename(sLast.sid)])

\* a get of a malformed sid has returned a new session under a generated key,
\* while the store holds a record of another session
C18_Witness ==
    /\ sLast.op = "get"
    /\ ~IsKeyFormat(sLast.sid)
    /\ sLast.ret.new
    /\ sLast.ret.sid # sLast.sid
    /\ files # EmptyDict

\* C19 as stated: a get of an sid that is not 40 hex characters touches no file
\* whose name is made from that sid.
C19_MalformedSidNotLookedUp ==
    (sLast.op = "get" /\ ~IsKeyFormat(sLast.sid))
        => get_session_filename(sLast.sid) \notin TouchedNames(sLast)

\* C20: a get of an sid that was saved, and neither saved again nor deleted
\* since, returns the namespace that was saved, under the same sid, with
\* new = false.
C20_SaveGetRoundTrip ==
    (sLast.op = "get" /\ sLast.sid \in DOMAIN saved) =>
        /\ sLast.exc = ""
        /\ sLast.ret.data = saved[sLast.sid]
        /\ sLast.ret.sid = sLast.sid
        /\ ~sLast.ret.new

\* a session with an item in it was saved and then read back
C20_Witness ==
    /\ sLast.op = "get"
    /\ sLast.sid \in DOMAIN saved
    /\ saved[sLast.sid] # EmptyDict
    /\ sLast.ret.data = saved[sLast.sid]
    /\ ~sLast.ret.new

\* C21: save_if_modified(session) saves exactly when session.modified is true:
\* it then writes the session's file as save does; for a session that is not
\* modified it touches no file and leaves the directory as it was.
C21_SaveIfModified ==
    [][(sops' = sops + 1 /\ sLast'.at = sops' /\ sLast'.op = "save_if_modified") =>
         IF sess.modified
         THEN /\ files' = FilesystemSessionStore_save(files, sess)
              /\ sLast'.touched = {<<"open", get_session_filename(sess.sid)>>}
         ELSE /\ files' = files
              /\ sLast'.touched = {}
      ]_vars

\* save_if_modified was called on an unmodified session that the store had
\* loaded from a record, and wrote nothing
C21_Witness ==
    /\ sLast.op = "save_if_modified"
    /\ ~sess.modified
    /\ ~sess.new
    /\ sLast.touched = {}
    /\ sess.data # EmptyDict

\* the methods of a session that change it
Mutators == {"setitem", "delitem", "clear", "pop", "popitem", "setdefault", "update"}

\* C22: the modified flag is true once any mutating method was called on the
\* session, and false on a session that new() or get() returned and on which
\* none was called yet.
C22_ModifiedTracksMutation ==
    /\ mLast.op \in Mutators => sess.modified
    /\ (sess # NoSession /\ mLast.op = "none") => ~sess.modified

\* setdefault was the first method called on a session loaded from a record
C22_Witness ==
    /\ mLast.op = "setdefault"
    /\ sess.modified
    /\ ~sess.new
    /\ sLast.op = "get"

\* C25: delete(session) raises nothing and leaves no record for session.sid,
\* whether or not there was one; a get of an sid that was deleted and not saved
\* since returns a session with new = true and an empty namespace.
C25_DeleteRemoves ==
    /\ sLast.op = "delete" =>
          /\ sLast.exc = ""
          /\ get_session_filename(sLast.sid) \notin DOMAIN files
    /\ (sLast.op = "get" /\ sLast.sid \in DOMAIN deleted) =>
          /\ sLast.exc = ""
          /\ sLast.ret.new
          /\ sLast.ret.data = EmptyDict

\* a get of an sid whose record a delete had removed
C25_Witness ==
    /\ sLast.op = "get"
    /\ sLast.sid \in DOMAIN deleted
    /\ deleted[sLast.sid]
    /\ sLast.ret.new

\* C27: new() returns a session with an empty namespace, new = true,
\* modified = false and a generated key, 40 lowercase hex characters that
\* is_valid_key accepts; it touches no file and leaves the directory as it was.
C27_NewIsFresh ==
    [][(sops' = sops + 1 /\ sLast'.at = sops' /\ sLast'.op = "new") =>
         /\ files' = files
         /\ sLast'.touched = {}
         /\ sess' = sLast'.ret
         /\ sess'.data = EmptyDict
         /\ sess'.new
         /\ ~sess'.modified
         /\ \E e \in Entropy : sess'.sid = generate_key(e)
         /\ is_valid_key(sess'.sid)
         /\ IsKeyFormat(sess'.sid)
      ]_vars

\* new() was called while the store held a record
C27_Witness ==
    /\ sLast.op = "new"
    /\ sess = sLast.ret
    /\ sess.new
    /\ files # EmptyDict

(***************************************************************************)
(* Properties of SessionMiddleware.                                        *)
(***************************************************************************)

\* C23: in a request served through SessionMiddleware the session is written
\* at most once, and not before the body was drained or closed. Once the body
\* is closed the session has been written exactly if its modified flag is
\* set, and the file then holds the session's namespace.
C23_SaveAtCleanupOnly ==
    /\ smw.writes <= 1
    /\ smw.writes = 1 =>
          /\ smw.phase = "body" /\ smw.it.state = "CLOSED"
          /\ smw.closeCalled \/ smw.it.pos = smw.it.len
    /\ (smw.phase = "body" /\ smw.it.state = "CLOSED") =>
          /\ smw.writes = 1 <=> smw.session.modified
          /\ smw.session.modified =>
                /\ get_session_filename(smw.session.sid) \in DOMAIN mwFiles
                /\ mwFiles[get_session_filename(smw.session.sid)] = Pickled(smw.session.data)

\* a session loaded from the record of an earlier request was changed and
\* written when the body was drained, with no close call
C23_Witness ==
    /\ smw.phase = "body"
    /\ smw.it.state = "CLOSED"
    /\ smw.drained
    /\ ~smw.closeCalled
    /\ ~smw.session.new
    /\ smw.writes = 1
    /\ smw.started
    /\ smw.header = NoHeader

\* C24 as stated: a Set-Cookie header that SessionMiddleware emits carries the
\* configured cookie name and, as its value, the sid of the request's session.
C24_CookieCarriesSid ==
    smw.header # NoHeader =>
        /\ smw.header.key = PyStr(CookieName)
        /\ smw.header.value = PyStr(smw.session.sid)

(***************************************************************************)
(* Properties of the store on a failing file system.                       *)
(***************************************************************************)
\* C26: a store call in which a file system call failed raises to its caller
C26_FailureSurfaced == io.fault # "none" => io.exc # ""

(***************************************************************************)
(* Properties of generate_key.                                             *)
(***************************************************************************)
\* the hex digits in lower case
LowerHexChars == {"0", "1", "2", "3", "4", "5", "6", "7", "8", "9",
                  "a", "b", "c", "d", "e", "f"}

\* k is 40 lowercase hex characters
IsLowerHexKey(k) == Len(k) = KeyLen /\ \A i \in 1..Len(k) : k[i] \in LowerHexChars

IsPrefix(a, b) == Len(a) <= Len(b) /\ \A i \in 1..Len(a) : a[i] = b[i]

InCritical(l) == {u \in LockUnits : pc[u].local = l /\ pc[u].at \in {"body", "finally"}}

\* C30: at most one thread is inside the critical section of a Local, and
\* every access to its __storage, iteration included, was made by a thread
\* that held its lock
C30_MutualExclusion ==
    /\ \A l \in LockLocals : Cardinality(InCritical(l)) <= 1
    /\ acc.op # "none" => acc.held

(***************************************************************************)
(* Properties of get on the two stores.                                    *)
(***************************************************************************)
\* C31: the session that get returns, on the base store and on the
\* filesystem store, carries an sid that is_valid_key accepts
C31_GetReturnsValidSid ==
    sLast.op \in {"get", "base_get"} => is_valid_key(sLast.ret.sid)

(***************************************************************************)
(* Properties of values nested in a session.                               *)
(***************************************************************************)
\* C32: appending to a list held in the session leaves modified as it was,
\* and a save_if_modified that follows while modified is false writes nothing
C32_NestedNotTracked ==
    [][/\ (sops' = sops + 1 /\ mLast' # mLast /\ mLast'.op = "nested") =>
              sess'.modified = sess.modified
       /\ (/\ sops' = sops + 1 /\ sLast'.at = sops' /\ sLast'.op = "save_if_modified"
           /\ mLast.op = "nested" /\ ~sess.modified) =>
              files' = files]_vars

\* a recovered session whose list was appended to, then save_if_modified: the
\* record still holds the list as it was saved
C32_Witness ==
    /\ ~sess.new /\ ~sess.modified
    /\ mLast.op = "nested"
    /\ sLast.op = "save_if_modified" /\ sLast.at = sops /\ sLast.touched = {}
    /\ get_session_filename(sess.sid) \in DOMAIN files
    /\ Unpickled(files[get_session_filename(sess.sid)]) # sess.data

(***************************************************************************)
(* Properties of copy.                                                     *)
(***************************************************************************)
\* C33: copy() raises nothing and returns a session with the items and the
\* modified, sid and new attributes of the original
C33_CopyIsEqual ==
    mLast.op = "copy" =>
        /\ mLast.exc = ""
        /\ mLast.ret.data = sess.data
        /\ mLast.ret.modified = sess.modified
        /\ mLast.ret.sid = sess.sid
        /\ mLast.ret.new = sess.new

(***************************************************************************)
(* Properties of the frame of LocalManager.cleanup.                        *)
(***************************************************************************)
\* C34: a cleanup leaves every Local that is not managed as it was, and in
\* the managed ones the namespace of every identity but the caller's
C34_CleanupFrame ==
    [][(nops' = nops + 1 /\ last'.op = "cleanup") =>
          \A l \in Locals :
              /\ l \notin Managed => storage'[l] = storage[l]
              /\ \A i \in ((DOMAIN storage[l]) \cup (DOMAIN storage'[l]))
                              \ {get_ident(last'.unit)} :
                    /\ i \in DOMAIN storage[l]
                    /\ i \in DOMAIN storage'[l]
                    /\ storage'[l][i] = storage[l][i]]_vars

\* after a cleanup, another identity still has its namespace in a managed
\* Local, and the caller its own in the Local that is not managed
C34_Witness ==
    /\ last.op = "cleanup"
    /\ \E l \in Managed : \E i \in DOMAIN storage[l] : i # get_ident(last.unit)
    /\ \E l \in Locals \ Managed : get_ident(last.unit) \in DOMAIN storage[l]

\* C35: a lock is held only by a thread that is inside the try and finally
\* of a call on that Local, so every call that has returned or raised has
\* released it; and a thread that waits for a lock gets it
C35_LockReleased ==
    /\ [](\A l \in LockLocals :
              lk[l] # NoUnit =>
                  /\ pc[lk[l]].at \in {"body", "finally"}
                  /\ pc[lk[l]].local = l)
    /\ \A u \in LockUnits : (pc[u].at = "acquire") ~> (pc[u].at = "body")

\* a get or a delete of one thread has raised AttributeError, and the other
\* thread is now inside its call on the same Local
C35_Witness ==
    \E u, v \in LockUnits :
        /\ u # v
        /\ pc[u].at = "idle" /\ pc[u].op \in {"get", "del"} /\ pc[u].exc = "AttributeError"
        /\ acc.unit = u
        /\ pc[v].at = "body" /\ pc[v].local = acc.local /\ lk[acc.local] = v

(***************************************************************************)
(* Properties of the modified flag on calls that fail or change nothing.   *)
(***************************************************************************)
\* C36: a tracked call that raises or leaves the namespace as it was sets
\* modified all the same; no call on the session or on the store takes the
\* flag of the held session back; and save_if_modified then writes the
\* namespace, also when the record already holds it
C36_ModifiedSticks ==
    [][/\ (/\ sops' = sops + 1 /\ sLast' = sLast /\ mLast'.op \in Mutators
           /\ (mLast'.exc # "" \/ sess'.data = sess.data)) =>
              sess'.modified
       /\ (/\ sops' = sops + 1 /\ sess.modified
           /\ ~(sLast'.at = sops' /\ sLast'.op \in {"new", "get"})) =>
              sess'.modified
       /\ (/\ sops' = sops + 1 /\ sLast'.at = sops' /\ sLast'.op = "save_if_modified"
           /\ sess.modified /\ mLast.op \in Mutators) =>
              /\ sLast'.touched # {}
              /\ files'[get_session_filename(sess.sid)] = Pickled(sess.data)]_vars

\* a pop of an absent key raised on a session whose record holds the very
\* namespace the session has, and the flag is set
C36_Witness ==
    /\ mLast.op = "pop" /\ mLast.exc = "KeyError"
    /\ sess.modified
    /\ get_session_filename(sess.sid) \in DOMAIN files
    /\ Unpickled(files[get_session_filename(sess.sid)]) = sess.data
    /\ sess.data # EmptyDict

\* C37: when the session of a request was persisted at cleanup, the response
\* of that request, begun with start_response, carried a Set-Cookie header
C37_PersistedImpliesCookie ==
    (smw.writes = 1 /\ smw.started) => smw.header # NoHeader

\* C40: as long as the application has not changed the session of a request,
\* new or recovered, the request has written nothing to the store and its
\* response has no Set-Cookie header; and no step that leaves the session
\* unmodified changes the session directory
C40_ReadOnlyRequest ==
    /\ []((smw.phase # "idle" /\ ~smw.session.modified) =>
              (smw.writes = 0 /\ smw.header = NoHeader /\ smw.exc \in {"", "AppError"}))
    /\ [][~smw'.session.modified => mwFiles' = mwFiles]_vars

\* a finished request that recovered its session from the cookie and only
\* read it: start_response was called and the body closed
C40_Witness ==
    /\ smw.phase = "body" /\ smw.it.state = "CLOSED"
    /\ smw.started
    /\ ~smw.session.new /\ ~smw.session.modified
    /\ smw.session.data # EmptyDict
    /\ smw.writes = 0 /\ smw.header = NoHeader

(***************************************************************************)
(* Properties of get racing with save and delete.                          *)
(***************************************************************************)
\* C38: a get that ran while the same session was being saved, and during no
\* delete, raises nothing and returns the namespace persisted before the save
\* or the one being saved (a new session only if there was no record before)
C38_GetDuringSave ==
    (gt.at = "done" /\ gt.overlap = {"save"}) =>
        /\ gt.exc = ""
        /\ IF gt.new THEN gt.mayNew ELSE gt.data \in gt.cands

\* C39: a get that ran while the same session was being deleted, and during
\* no save, raises nothing and returns the persisted session or a new one
C39_GetDuringDelete ==
    (gt.at = "done" /\ gt.overlap = {"delete"}) =>
        /\ gt.exc = ""
        /\ gt.new \/ gt.data \in gt.cands

====
